---- MODULE Spec2Model ----
(***************************************************************************)
(* pgdbtemplate: the template lifecycle controller (TemplateManager).     *)
(*                                                                         *)
(* The controller's four operations (Initialize, CreateTestDatabase,       *)
(* DropTestDatabase, Cleanup) are modelled statement by statement: every   *)
(* call to a collaborator (ConnectionProvider.Connect, ExecContext,        *)
(* QueryRowContext.Scan, MigrationRunner.RunMigrations) is one atomic      *)
(* step, so that goroutines interleave exactly where the code can be       *)
(* preempted around shared state.  Deferred Close calls and the deferred   *)
(* mu.Unlock run in the step that returns.  A goroutine blocked in         *)
(* mu.Lock() has had no effect yet and is represented as idle, except in   *)
(* the specification with fairness (SpecLive), where the blocked call is   *)
(* a position of its own.                                                  *)
(*                                                                         *)
(* The database engine is the set of existing databases with their         *)
(* "migrations applied" and "is_template" attributes.  Every collaborator  *)
(* call may fail (when faults is TRUE); a statement the engine refuses     *)
(* (CREATE of an existing database, DROP of a missing one, ...) always     *)
(* fails.                                                                  *)
(***************************************************************************)
EXTENDS Integers, Sequences, FiniteSets, TLC

\* Bounds of the model.
MaxCalls == 3     \* operations started in one behaviour, two goroutines
MaxSeqCalls == 5  \* operations started in one behaviour, one goroutine
MaxTime == 2      \* distinct readings of time.Now().UnixNano()
MaxCounter == 2   \* auto-named test databases (values of globalTestDBCounter)
MaxFiles == 2     \* file names that a migration directory may hold

Procs == {"g1", "g2"}          \* goroutines calling the controller
Ctrls == {"tm1", "tm2"}        \* TemplateManager instances of the process
NoProc == "none"

defaultAdminDBName == "postgres"

\* Config.TemplateName of each instance (distinct, as the generated ones are).
templateName(c) == IF c = "tm1" THEN "template_db_1" ELSE "template_db_2"

\* Config.TestDBPrefix is left empty, so both instances use "test_".
testPrefix(c) == "test_"

\* Caller-supplied test database names.
ExplicitNames == {"a"}

VARIABLES
    dbs,                 \* engine: names of the existing databases
    migrated,            \* engine: databases holding the migrated schema
    isTemplate,          \* engine: databases with is_template TRUE
    initialized,         \* tm.initialized, per instance
    mu,                  \* tm.mu: the goroutine holding it, or NoProc
    createdTestDBs,      \* tm.createdTestDBs: the tracked names, per instance
    globalTestDBCounter, \* the process-wide atomic counter
    pc,                  \* per goroutine: position in its current call
    op,                  \* per goroutine: the operation of its current/last call
    tm,                  \* per goroutine: the instance the call is made on
    dbName,              \* per goroutine: the call's dbName
    err,                 \* per goroutine: the call's error (<<>> is nil)
    stmts,               \* per goroutine: collaborator calls made by the call
    conns,               \* per goroutine: connections the call holds open
    todo,                \* per goroutine: Cleanup's dbNames not yet visited
    ncalls,              \* operations started so far
    ctrls,               \* the instances that were constructed
    faults,              \* whether collaborator calls may fail on their own
    procs,               \* the goroutines that call the controller
    cancelled,           \* the goroutines whose context.Context was cancelled
    runner               \* a FileMigrationRunner and its RunMigrations call

engine == <<dbs, migrated, isTemplate>>
manager == <<initialized, mu, createdTestDBs>>
locals == <<pc, op, tm, dbName, err, stmts, conns, todo>>
setup == <<ctrls, faults, procs, cancelled, runner>>
vars == <<dbs, migrated, isTemplate, initialized, mu, createdTestDBs,
          globalTestDBCounter, pc, op, tm, dbName, err, stmts, conns, todo,
          ncalls, ctrls, faults, procs, cancelled, runner>>

----------------------------------------------------------------------------
\* Errors.  An error value is the sequence of its messages, outermost first;
\* nil is the empty sequence.

Nil == << >>

\* fmt.Errorf("msg: %w", e)
Wrap(msg, e) == <<msg>> \o e

\* errors.Join(e1, e2): nil operands are discarded, both messages are kept.
JoinDropFirst(e1, e2) == e2
Join(e1, e2) == e1 \o e2

Mentions(e, msg) == \E i \in 1..Len(e) : e[i] = msg

----------------------------------------------------------------------------
\* fmt.Sprintf("%s%d_%d", tm.testPrefix, time.Now().UnixNano(), counter)
SprintfNoCounter(prefix, t, n) == prefix \o ToString(t)
Sprintf(prefix, t, n) == prefix \o ToString(t) \o "_" \o ToString(n)

AutoNames == {Sprintf(testPrefix(c), t, n) :
                 c \in Ctrls, t \in 1..MaxTime, n \in 1..MaxCounter}
TemplateNames == {templateName(c) : c \in Ctrls}

----------------------------------------------------------------------------
\* The engine, as the controller's statements see it.

\* CREATE DATABASE n: refused when n exists.
CanCreate(n) == n \notin dbs
\* CREATE DATABASE n TEMPLATE t: also needs the source database.
CanClone(n, t) == n \notin dbs /\ t \in dbs
\* DROP DATABASE n (no IF EXISTS): refused when n is missing, or is a template
\* that was not unmarked first.
CanDropIfExists(n) == n \notin isTemplate
CanDrop(n) == n \in dbs /\ n \notin isTemplate
\* ALTER DATABASE n WITH is_template ...
CanAlter(n) == n \in dbs
\* Connect(n): the administrative database is always there.
CanConnect(n) == n = defaultAdminDBName \/ n \in dbs

CreateErr(n) == IF n \in dbs THEN <<"already exists">> ELSE <<"exec error">>
DropErr(n) == IF n \notin dbs THEN <<"does not exist">> ELSE <<"exec error">>
ExecErr == <<"exec error">>
ConnectErr == <<"connect error">>
MigrationErr == <<"migration error">>

\* ok is a possible outcome of a collaborator call that goroutine p makes with
\* its context and that the engine would accept exactly when engineOK holds:
\* a call made with a cancelled context may return the context's error.
Outcome(p, ok, engineOK) ==
    /\ ok => engineOK
    /\ ~ok => (faults \/ p \in cancelled \/ ~engineOK)

\* fmt.Errorf("failed to drop database %q: %w", dbName, err)
DropFailedMsg(n) == "failed to drop database " \o n

EngineDrop(n) ==
    /\ dbs' = dbs \ {n}
    /\ migrated' = migrated \ {n}
    /\ isTemplate' = isTemplate \ {n}

----------------------------------------------------------------------------
\* Bookkeeping of a call.

\* One collaborator call: kind, target, whether it succeeded.
Log(p, kind, target, ok) == stmts' = [stmts EXCEPT ![p] = Append(@, <<kind, target, ok>>)]

Goto(p, label) == pc' = [pc EXCEPT ![p] = label]

\* The number of calls a behaviour makes: fewer when goroutines interleave.
CallBound == IF Cardinality(procs) = 1 THEN MaxSeqCalls ELSE MaxCalls

\* A call starts: its locals are fresh.
Begin(p, c, o, label, name) ==
    /\ p \in procs
    /\ pc[p] = "idle"
    /\ ncalls < CallBound
    /\ c \in ctrls
    /\ ncalls' = ncalls + 1
    /\ pc' = [pc EXCEPT ![p] = label]
    /\ op' = [op EXCEPT ![p] = o]
    /\ tm' = [tm EXCEPT ![p] = c]
    /\ dbName' = [dbName EXCEPT ![p] = name]
    /\ err' = [err EXCEPT ![p] = Nil]
    /\ stmts' = [stmts EXCEPT ![p] = << >>]
    /\ conns' = [conns EXCEPT ![p] = {}]
    /\ todo' = [todo EXCEPT ![p] = {}]

\* The connections of a call for which "defer conn.Close()" was registered:
\* the administrative and the template connections, never the test
\* database's connection, which CreateTestDatabase hands to its caller.
DeferredCloseNone(p) == {}
DeferredClose(p) == conns[p] \cap ({defaultAdminDBName} \cup TemplateNames)

\* The call returns e: the deferred Close calls run.
Return(p, e) ==
    /\ pc' = [pc EXCEPT ![p] = "idle"]
    /\ err' = [err EXCEPT ![p] = e]
    /\ conns' = [conns EXCEPT ![p] = @ \ DeferredClose(p)]

\* Reading a call's log: was a statement of this kind issued, and how it ended.
Issued(log, kind) == \E i \in 1..Len(log) : log[i][1] = kind

IssuedOn(log, kind, target) ==
    \E i \in 1..Len(log) : log[i][1] = kind /\ log[i][2] = target

Ended(log, kind, target, res) ==
    \E i \in 1..Len(log) : log[i][1] = kind /\ log[i][2] = target /\ log[i][3] = res

Count(log, kind) == Cardinality({i \in 1..Len(log) : log[i][1] = kind})

----------------------------------------------------------------------------
\* tm.mu

MuFreeNoMutex(c) == TRUE
MuFree(c) == mu[c] = NoProc

Lock(p, c) == mu' = [mu EXCEPT ![c] = p]
UnlockNever(c) == mu' = mu
Unlock(c) == mu' = [mu EXCEPT ![c] = NoProc]

----------------------------------------------------------------------------
\* Initialize

\* if tm.initialized { return nil }
AlreadyInitializedNever(c) == FALSE
AlreadyInitialized(c) == initialized[c]

\* tm.initialized = true, after createTemplateDatabase returned nil
SetInitialized(c) == initialized' = [initialized EXCEPT ![c] = TRUE]

\* Initialize returns the error of createTemplateDatabase, wrapped, before
\* the assignment to tm.initialized.
InitializeFailSetsInitialized(p, e) ==
    /\ Return(p, Wrap("failed to create template database", e))
    /\ SetInitialized(tm[p])
    /\ Unlock(tm[p])
    /\ UNCHANGED createdTestDBs

InitializeFail(p, e) ==
    /\ Return(p, Wrap("failed to create template database", e))
    /\ Unlock(tm[p])
    /\ UNCHANGED <<initialized, createdTestDBs>>

InitializeSucceed(p) ==
    /\ Return(p, Nil)
    /\ SetInitialized(tm[p])
    /\ Unlock(tm[p])
    /\ UNCHANGED createdTestDBs

\* mu.Lock(); the initialized check.
Initialize(p) ==
    \E c \in ctrls :
        /\ MuFree(c)
        /\ IF AlreadyInitialized(c)
             THEN /\ Begin(p, c, "Initialize", "idle", "")
                  /\ UNCHANGED manager
             ELSE /\ Begin(p, c, "Initialize", "T_connectAdmin", "")
                  /\ Lock(p, c)
                  /\ UNCHANGED <<initialized, createdTestDBs>>
        /\ UNCHANGED <<engine, globalTestDBCounter, setup>>

\* adminConn, err := tm.provider.Connect(ctx, tm.adminDBName)
createTemplateDatabase_connectAdmin(p) ==
    /\ pc[p] = "T_connectAdmin"
    /\ \E ok \in BOOLEAN :
        /\ Outcome(p, ok, CanConnect(defaultAdminDBName))
        /\ Log(p, "CONNECT", defaultAdminDBName, ok)
        /\ IF ok
             THEN /\ Goto(p, "T_probe")
                  /\ conns' = [conns EXCEPT ![p] = @ \cup {defaultAdminDBName}]
                  /\ UNCHANGED <<err, manager>>
             ELSE InitializeFail(p, Wrap("failed to connect to admin database", ConnectErr))
    /\ UNCHANGED <<engine, globalTestDBCounter, op, tm, dbName, todo, ncalls, setup>>

\* SELECT TRUE FROM pg_database WHERE datname = $1 LIMIT 1
ProbeFinds(t) == t \in dbs

\* err == nil after Scan: "Template already exists, return early."
TemplateExistsRecreate(p) ==
    /\ Goto(p, "T_create")
    /\ UNCHANGED <<err, conns, manager>>

TemplateExists(p) == InitializeSucceed(p)

\* The existence probe: Scan returns nil, the no-rows sentinel or an error.
\* An error of the probe other than "no rows" (sql.ErrNoRows) is returned.
ProbeFailedTreatedAsMissing(p) ==
    /\ Goto(p, "T_create")
    /\ UNCHANGED <<err, conns, manager>>

ProbeFailed(p) == InitializeFail(p, Wrap("failed to check if template exists", ExecErr))

createTemplateDatabase_probe(p) ==
    /\ pc[p] = "T_probe"
    /\ \E res \in {"found", "norows", "error"} :
        /\ res = "found" => ProbeFinds(templateName(tm[p]))
        /\ res = "norows" => ~ProbeFinds(templateName(tm[p]))
        /\ res = "error" => (faults \/ p \in cancelled)
        /\ Log(p, "PROBE", templateName(tm[p]), res)
        /\ CASE res = "found" -> TemplateExists(p)
             [] res = "norows" -> Goto(p, "T_create") /\ UNCHANGED <<err, conns, manager>>
             [] OTHER -> ProbeFailed(p)
    /\ UNCHANGED <<engine, globalTestDBCounter, op, tm, dbName, todo, ncalls, setup>>

\* CREATE DATABASE <template>
createTemplateDatabase_create(p) ==
    LET t == templateName(tm[p]) IN
    /\ pc[p] = "T_create"
    /\ \E ok \in BOOLEAN :
        /\ Outcome(p, ok, CanCreate(t))
        /\ Log(p, "CREATE", t, ok)
        /\ IF ok
             THEN /\ dbs' = dbs \cup {t}
                  /\ Goto(p, "T_connectTemplate")
                  /\ UNCHANGED <<err, conns, manager>>
             ELSE /\ InitializeFail(p, Wrap("failed to create template database", CreateErr(t)))
                  /\ UNCHANGED dbs
    /\ UNCHANGED <<migrated, isTemplate, globalTestDBCounter, op, tm, dbName, todo, ncalls, setup>>

\* The step that follows the connection to the new template database: the
\* migrations, before the database is marked as a template.
AfterConnectTemplateMark == "T_mark"
AfterConnectTemplate == "T_migrate"

\* templateConn, err := tm.provider.Connect(ctx, tm.templateName)
createTemplateDatabase_connectTemplate(p) ==
    LET t == templateName(tm[p]) IN
    /\ pc[p] = "T_connectTemplate"
    /\ \E ok \in BOOLEAN :
        /\ Outcome(p, ok, CanConnect(t))
        /\ Log(p, "CONNECT", t, ok)
        /\ IF ok
             THEN /\ Goto(p, AfterConnectTemplate)
                  /\ conns' = [conns EXCEPT ![p] = @ \cup {t}]
                  /\ UNCHANGED err
             ELSE /\ Goto(p, "T_compensate")
                  /\ err' = [err EXCEPT ![p] = Wrap("failed to connect to template database", ConnectErr)]
                  /\ UNCHANGED conns
    /\ UNCHANGED <<engine, manager, globalTestDBCounter, op, tm, dbName, todo, ncalls, setup>>

\* tm.migrator.RunMigrations(ctx, templateConn); on failure the deferred
\* templateConn.Close() runs before the deferred drop.
createTemplateDatabase_migrate(p) ==
    LET t == templateName(tm[p]) IN
    /\ pc[p] = "T_migrate"
    /\ \E ok \in BOOLEAN :
        /\ Outcome(p, ok, t \in dbs)
        /\ Log(p, "MIGRATE", t, ok)
        /\ IF ok
             THEN /\ migrated' = migrated \cup {t}
                  /\ Goto(p, "T_mark")
                  /\ UNCHANGED <<err, conns>>
             ELSE /\ Goto(p, "T_compensate")
                  /\ err' = [err EXCEPT ![p] = Wrap("failed to run migrations on template", MigrationErr)]
                  /\ conns' = [conns EXCEPT ![p] = @ \ {t}]
                  /\ UNCHANGED migrated
    /\ UNCHANGED <<dbs, isTemplate, manager, globalTestDBCounter, op, tm, dbName, todo, ncalls, setup>>

\* ALTER DATABASE <template> WITH is_template TRUE
createTemplateDatabase_mark(p) ==
    LET t == templateName(tm[p]) IN
    /\ pc[p] = "T_mark"
    /\ \E ok \in BOOLEAN :
        /\ Outcome(p, ok, CanAlter(t))
        /\ Log(p, "MARK", t, ok)
        /\ IF ok
             THEN /\ isTemplate' = isTemplate \cup {t}
                  /\ InitializeSucceed(p)
             ELSE /\ Goto(p, "T_compensate")
                  /\ err' = [err EXCEPT ![p] = Wrap("failed to mark database as template", ExecErr)]
                  /\ conns' = [conns EXCEPT ![p] = @ \ {t}]
                  /\ UNCHANGED <<isTemplate, manager>>
    /\ UNCHANGED <<dbs, migrated, globalTestDBCounter, op, tm, dbName, todo, ncalls, setup>>

\* The deferred function of createTemplateDatabase, run when err # nil:
\* DROP DATABASE <template>; a drop error is joined to the original one.
DropCreatedTemplateOmitted(p, ok) ==
    /\ InitializeFail(p, err[p])
    /\ UNCHANGED <<engine, stmts>>

DropCreatedTemplate(p, ok) ==
    LET t == templateName(tm[p]) IN
    /\ Outcome(p, ok, CanDrop(t))
    /\ Log(p, "DROP", t, ok)
    /\ IF ok
         THEN /\ EngineDrop(t)
              /\ InitializeFail(p, err[p])
         ELSE /\ InitializeFail(p, Join(err[p], Wrap("failed to drop template database", DropErr(t))))
              /\ UNCHANGED engine

createTemplateDatabase_compensate(p) ==
    /\ pc[p] = "T_compensate"
    /\ \E ok \in BOOLEAN : DropCreatedTemplate(p, ok)
    /\ UNCHANGED <<globalTestDBCounter, op, tm, dbName, todo, ncalls, setup>>

----------------------------------------------------------------------------
\* CreateTestDatabase

\* atomic.AddInt64(&globalTestDBCounter, 1)
AddCounter == globalTestDBCounter + 1

\* The name is the caller's, or is generated from the prefix, the clock and
\* the process-wide counter.
CreateTestDatabase(p) ==
    \E c \in ctrls :
        /\ \/ \E n \in ExplicitNames :
                /\ Begin(p, c, "CreateTestDatabase", "X_connectAdmin", n)
                /\ UNCHANGED globalTestDBCounter
           \/ \E t \in 1..MaxTime :
                /\ globalTestDBCounter < MaxCounter
                /\ globalTestDBCounter' = AddCounter
                /\ Begin(p, c, "CreateTestDatabase", "X_connectAdmin",
                         Sprintf(testPrefix(c), t, AddCounter))
        /\ UNCHANGED <<engine, manager, setup>>

\* adminConn, err := tm.provider.Connect(ctx, tm.adminDBName)
CreateTestDatabase_connectAdmin(p) ==
    /\ pc[p] = "X_connectAdmin"
    /\ \E ok \in BOOLEAN :
        /\ Outcome(p, ok, CanConnect(defaultAdminDBName))
        /\ Log(p, "CONNECT", defaultAdminDBName, ok)
        /\ IF ok
             THEN /\ Goto(p, "X_create")
                  /\ conns' = [conns EXCEPT ![p] = @ \cup {defaultAdminDBName}]
                  /\ UNCHANGED err
             ELSE Return(p, Wrap("failed to connect to admin database", ConnectErr))
    /\ UNCHANGED <<engine, manager, globalTestDBCounter, op, tm, dbName, todo, ncalls, setup>>

\* A failed CREATE DATABASE returns at once: the deferred drop is registered
\* only after the statement succeeded.
CreateFailedThenCompensate(p, e) ==
    /\ Goto(p, "X_compensate")
    /\ err' = [err EXCEPT ![p] = e]
    /\ UNCHANGED conns

CreateFailed(p, e) == Return(p, e)

\* CREATE DATABASE <dbName> TEMPLATE <template>
CreateTestDatabase_create(p) ==
    LET n == dbName[p]
        t == templateName(tm[p]) IN
    /\ pc[p] = "X_create"
    /\ \E ok \in BOOLEAN :
        /\ Outcome(p, ok, CanClone(n, t))
        /\ Log(p, "CLONE", n, ok)
        /\ IF ok
             THEN /\ dbs' = dbs \cup {n}
                  /\ migrated' = IF t \in migrated THEN migrated \cup {n} ELSE migrated
                  /\ Goto(p, "X_connectTest")
                  /\ UNCHANGED <<err, conns>>
             ELSE /\ CreateFailed(p, Wrap("failed to create test database", CreateErr(n)))
                  /\ UNCHANGED <<dbs, migrated>>
    /\ UNCHANGED <<isTemplate, manager, globalTestDBCounter, op, tm, dbName, todo, ncalls, setup>>

\* testConn, err := tm.provider.Connect(ctx, dbName)
CreateTestDatabase_connectTest(p) ==
    LET n == dbName[p] IN
    /\ pc[p] = "X_connectTest"
    /\ \E ok \in BOOLEAN :
        /\ Outcome(p, ok, CanConnect(n))
        /\ Log(p, "CONNECT", n, ok)
        /\ IF ok
             THEN /\ Goto(p, "X_store")
                  /\ conns' = [conns EXCEPT ![p] = @ \cup {n}]
                  /\ UNCHANGED err
             ELSE /\ Goto(p, "X_compensate")
                  /\ err' = [err EXCEPT ![p] = Wrap("failed to connect to test database", ConnectErr)]
                  /\ UNCHANGED conns
    /\ UNCHANGED <<engine, manager, globalTestDBCounter, op, tm, dbName, todo, ncalls, setup>>

\* tm.createdTestDBs.Store(dbName, true); return testConn, dbName, nil
StoreNothing(set, n) == set
Store(set, n) == set \cup {n}

CreateTestDatabase_store(p) ==
    /\ pc[p] = "X_store"
    /\ createdTestDBs' = [createdTestDBs EXCEPT ![tm[p]] = Store(@, dbName[p])]
    /\ Return(p, Nil)
    /\ UNCHANGED <<engine, initialized, mu, globalTestDBCounter, op, tm, dbName, stmts, todo, ncalls, setup>>

\* The deferred function of CreateTestDatabase, run when err # nil:
\* DROP DATABASE <dbName> on adminConn; untrack only if the drop succeeded,
\* else join the drop error to the original one.
DropCreatedTestDatabaseOmitted(p, ok) ==
    /\ Return(p, err[p])
    /\ UNCHANGED <<engine, createdTestDBs, stmts>>

DropCreatedTestDatabase(p, ok) ==
    LET n == dbName[p] IN
    /\ Outcome(p, ok, CanDrop(n))
    /\ Log(p, "DROP", n, ok)
    /\ IF ok
         THEN /\ EngineDrop(n)
              /\ createdTestDBs' = [createdTestDBs EXCEPT ![tm[p]] = @ \ {n}]
              /\ Return(p, err[p])
         ELSE /\ Return(p, Join(err[p], Wrap("failed to drop test database", DropErr(n))))
              /\ UNCHANGED <<engine, createdTestDBs>>

CreateTestDatabase_compensate(p) ==
    /\ pc[p] = "X_compensate"
    /\ \E ok \in BOOLEAN : DropCreatedTestDatabase(p, ok)
    /\ UNCHANGED <<initialized, mu, globalTestDBCounter, op, tm, dbName, todo, ncalls, setup>>

----------------------------------------------------------------------------
\* DropTestDatabase

\* The names a caller passes: its own names, and whatever exists or is tracked.
DropTargets(c) == ExplicitNames \cup (dbs \ TemplateNames) \cup createdTestDBs[c]

DropTestDatabase(p) ==
    \E c \in ctrls : \E n \in DropTargets(c) :
        /\ Begin(p, c, "DropTestDatabase", "D_connectTemplate", n)
        /\ UNCHANGED <<engine, manager, globalTestDBCounter, setup>>

\* templateConn, err := tm.provider.Connect(ctx, tm.templateName)
DropTestDatabase_connectTemplate(p) ==
    LET t == templateName(tm[p]) IN
    /\ pc[p] = "D_connectTemplate"
    /\ \E ok \in BOOLEAN :
        /\ Outcome(p, ok, CanConnect(t))
        /\ Log(p, "CONNECT", t, ok)
        /\ IF ok
             THEN /\ Goto(p, "D_terminate")
                  /\ conns' = [conns EXCEPT ![p] = @ \cup {t}]
                  /\ UNCHANGED err
             ELSE Return(p, Wrap("failed to connect to template database", ConnectErr))
    /\ UNCHANGED <<engine, manager, globalTestDBCounter, op, tm, dbName, todo, ncalls, setup>>

\* A failed termination query ends DropTestDatabase with its error.
TerminateFailedIgnored(p) ==
    /\ Goto(p, "D_drop")
    /\ UNCHANGED <<err, conns>>

TerminateFailed(p) == Return(p, Wrap("failed to terminate connections to database", ExecErr))

\* SELECT pg_terminate_backend(pid) ... WHERE datname = $1
DropTestDatabase_terminate(p) ==
    /\ pc[p] = "D_terminate"
    /\ \E ok \in BOOLEAN :
        /\ Outcome(p, ok, TRUE)
        /\ Log(p, "TERMINATE", dbName[p], ok)
        /\ IF ok
             THEN Goto(p, "D_drop") /\ UNCHANGED <<err, conns>>
             ELSE TerminateFailed(p)
    /\ UNCHANGED <<engine, manager, globalTestDBCounter, op, tm, dbName, todo, ncalls, setup>>

\* DROP DATABASE <dbName>
DropTestDatabase_drop(p) ==
    LET n == dbName[p] IN
    /\ pc[p] = "D_drop"
    /\ \E ok \in BOOLEAN :
        /\ Outcome(p, ok, CanDrop(n))
        /\ Log(p, "DROP", n, ok)
        /\ IF ok
             THEN /\ EngineDrop(n)
                  /\ Goto(p, "D_delete")
                  /\ UNCHANGED <<err, conns>>
             ELSE /\ Return(p, Wrap(DropFailedMsg(n), DropErr(n)))
                  /\ UNCHANGED engine
    /\ UNCHANGED <<manager, globalTestDBCounter, op, tm, dbName, todo, ncalls, setup>>

\* tm.createdTestDBs.Delete(dbName)
DeleteNothing(set, n) == set
Delete(set, n) == set \ {n}

\* tm.createdTestDBs.Delete(dbName); return nil
DropTestDatabase_delete(p) ==
    /\ pc[p] = "D_delete"
    /\ createdTestDBs' = [createdTestDBs EXCEPT ![tm[p]] = Delete(@, dbName[p])]
    /\ Return(p, Nil)
    /\ UNCHANGED <<engine, initialized, mu, globalTestDBCounter, op, tm, dbName, stmts, todo, ncalls, setup>>

----------------------------------------------------------------------------
\* Cleanup

\* tm.initialized = false; return errs (the deferred Close and Unlock run).
CleanupFinishKeepsInitialized(p, e) ==
    /\ Return(p, e)
    /\ UNCHANGED initialized
    /\ Unlock(tm[p])

CleanupFinish(p, e) ==
    /\ Return(p, e)
    /\ initialized' = [initialized EXCEPT ![tm[p]] = FALSE]
    /\ Unlock(tm[p])

\* if !tm.initialized { return nil }
NotInitializedNever(c) == FALSE
NotInitialized(c) == ~initialized[c]

\* mu.Lock(); the initialized check.
Cleanup(p) ==
    \E c \in ctrls :
        /\ MuFree(c)
        /\ IF NotInitialized(c)
             THEN /\ Begin(p, c, "Cleanup", "idle", "")
                  /\ UNCHANGED manager
             ELSE /\ Begin(p, c, "Cleanup", "C_connectAdmin", "")
                  /\ Lock(p, c)
                  /\ UNCHANGED <<initialized, createdTestDBs>>
        /\ UNCHANGED <<engine, globalTestDBCounter, setup>>

\* adminConn, err := tm.provider.Connect(ctx, tm.adminDBName); on failure
\* Cleanup returns before tm.initialized is reset.
Cleanup_connectAdmin(p) ==
    /\ pc[p] = "C_connectAdmin"
    /\ \E ok \in BOOLEAN :
        /\ Outcome(p, ok, CanConnect(defaultAdminDBName))
        /\ Log(p, "CONNECT", defaultAdminDBName, ok)
        /\ IF ok
             THEN /\ Goto(p, "C_range")
                  /\ conns' = [conns EXCEPT ![p] = @ \cup {defaultAdminDBName}]
                  /\ UNCHANGED <<err, mu>>
             ELSE /\ Return(p, Wrap("failed to connect to admin database", ConnectErr))
                  /\ Unlock(tm[p])
    /\ UNCHANGED <<engine, initialized, createdTestDBs, globalTestDBCounter, op, tm, dbName, todo, ncalls, setup>>

\* cleanupTrackedTestDatabases: tm.createdTestDBs.Range collects dbNames;
\* with none, it returns nil at once.
RangeNothing(c) == {}
Range(c) == createdTestDBs[c]

\* if len(dbNames) == 0 { return nil }: with nothing tracked the teardown
\* goes on to the template, without a termination query.
AfterRangeAlwaysTerminate(dbNames) == "C_terminate"
AfterRange(dbNames) == IF dbNames = {} THEN "C_unmark" ELSE "C_terminate"

cleanupTrackedTestDatabases_range(p) ==
    /\ pc[p] = "C_range"
    /\ todo' = [todo EXCEPT ![p] = Range(tm[p])]
    /\ Goto(p, AfterRange(Range(tm[p])))
    /\ UNCHANGED <<engine, manager, globalTestDBCounter, op, tm, dbName, err, stmts, conns, ncalls, setup>>

\* batchTerminateConnections: one query for all of dbNames; its failure is
\* recorded and the drops go on.
AfterTerminateAbort(ok) == IF ok THEN "C_drop" ELSE "C_unmark"
AfterTerminate(ok) == "C_drop"

batchTerminateConnections(p) ==
    /\ pc[p] = "C_terminate"
    /\ \E ok \in BOOLEAN :
        /\ Outcome(p, ok, TRUE)
        /\ Log(p, "TERMINATE_BATCH", todo[p], ok)
        /\ err' = [err EXCEPT ![p] =
                     IF ok THEN Nil
                     ELSE Wrap("failed to terminate connections for some databases", ExecErr)]
        /\ Goto(p, AfterTerminate(ok))
    /\ UNCHANGED <<engine, manager, globalTestDBCounter, op, tm, dbName, conns, todo, ncalls, setup>>

\* What cleanupTrackedTestDatabases returns is wrapped by Cleanup.
TrackedErrsDropped(e) == Nil
TrackedErrs(e) ==
    IF e = Nil THEN Nil ELSE Wrap("failed to clean up tracked test databases", e)

\* "continue": the loop ends when dbNames is exhausted, not at a failure.
LoopEndsOnError(left, n, ok) == left = {n} \/ ~ok
LoopEnds(left, n, ok) == left = {n}

\* tm.createdTestDBs.Delete(dbName) is reached only past the "continue" of a
\* failed drop.
UntrackAlways(set, n, ok) == Delete(set, n)
Untrack(set, n, ok) == IF ok THEN Delete(set, n) ELSE set

\* One iteration of "for _, dbName := range dbNames": DROP DATABASE; on
\* failure join the error and continue, on success untrack the name.  The
\* iteration order is that of the map's Range, which is arbitrary.
cleanupTrackedTestDatabases_drop(p) ==
    /\ pc[p] = "C_drop"
    /\ \E n \in todo[p] : \E ok \in BOOLEAN :
        LET e == IF ok THEN err[p]
                 ELSE Join(err[p], Wrap(DropFailedMsg(n), DropErr(n)))
            last == LoopEnds(todo[p], n, ok)
        IN
        /\ Outcome(p, ok, CanDrop(n))
        /\ Log(p, "DROP", n, ok)
        /\ IF ok THEN EngineDrop(n) ELSE UNCHANGED engine
        /\ createdTestDBs' = [createdTestDBs EXCEPT ![tm[p]] = Untrack(@, n, ok)]
        /\ todo' = [todo EXCEPT ![p] = @ \ {n}]
        /\ err' = [err EXCEPT ![p] = IF last THEN TrackedErrs(e) ELSE e]
        /\ Goto(p, IF last THEN "C_unmark" ELSE "C_drop")
    /\ UNCHANGED <<initialized, mu, globalTestDBCounter, op, tm, dbName, conns, ncalls, setup>>

\* dropTemplateDatabase returns the error of a failed unmark at once.
UnmarkFailedDropsAnyway(p, e) ==
    /\ Goto(p, "C_dropTemplate")
    /\ err' = [err EXCEPT ![p] = e]
    /\ UNCHANGED <<conns, initialized, mu>>

UnmarkFailed(p, e) == CleanupFinish(p, e)

\* dropTemplateDatabase: ALTER DATABASE <template> WITH is_template FALSE;
\* on failure the drop is not attempted.
dropTemplateDatabase_unmark(p) ==
    LET t == templateName(tm[p]) IN
    /\ pc[p] = "C_unmark"
    /\ \E ok \in BOOLEAN :
        /\ Outcome(p, ok, CanAlter(t))
        /\ Log(p, "UNMARK", t, ok)
        /\ IF ok
             THEN /\ isTemplate' = isTemplate \ {t}
                  /\ Goto(p, "C_dropTemplate")
                  /\ UNCHANGED <<err, conns, initialized, mu>>
             ELSE /\ UnmarkFailed(p, Join(err[p],
                        Wrap("failed to drop template database",
                             Wrap("failed to unmark template database", ExecErr))))
                  /\ UNCHANGED isTemplate
    /\ UNCHANGED <<dbs, migrated, createdTestDBs, globalTestDBCounter, op, tm, dbName, todo, ncalls, setup>>

\* dropTemplateDatabase: DROP DATABASE <template>
dropTemplateDatabase_drop(p) ==
    LET t == templateName(tm[p]) IN
    /\ pc[p] = "C_dropTemplate"
    /\ \E ok \in BOOLEAN :
        /\ Outcome(p, ok, CanDrop(t))
        /\ Log(p, "DROP", t, ok)
        /\ IF ok
             THEN /\ EngineDrop(t)
                  /\ CleanupFinish(p, err[p])
             ELSE /\ CleanupFinish(p, Join(err[p],
                        Wrap("failed to drop template database", DropErr(t))))
                  /\ UNCHANGED engine
    /\ UNCHANGED <<createdTestDBs, globalTestDBCounter, op, tm, dbName, todo, ncalls, setup>>

----------------------------------------------------------------------------
\* FileMigrationRunner.  A directory and a file name are modelled by their
\* rank in alphabetical order, a file path by the pair <<directory, name>>
\* (filepath.Join), so that sorting paths is sorting pairs.

Dirs == 1..2
FileNames == 1..MaxFiles
EntryKinds == {"absent", "sql", "other"}

\* The controller's specifications run no FileMigrationRunner.
NoRunner == [phase |-> "none"]

\* p sorts before q (string comparison of two joined paths).
PathLess(f, g) == f[1] < g[1] \/ (f[1] = g[1] /\ f[2] < g[2])

\* sort.Strings on a copy of the slice: insertion of each element in turn.
RECURSIVE Insert(_, _)
Insert(f, sorted) ==
    IF sorted = << >> THEN <<f>>
    ELSE IF PathLess(sorted[1], f) THEN <<sorted[1]>> \o Insert(f, Tail(sorted))
    ELSE <<f>> \o sorted

RECURSIVE AlphabeticalMigrationFilesSorting(_)
AlphabeticalMigrationFilesSorting(files) ==
    IF files = << >> THEN << >>
    ELSE Insert(files[1], AlphabeticalMigrationFilesSorting(Tail(files)))

RECURSIVE Reverse(_)
Reverse(files) ==
    IF files = << >> THEN << >> ELSE Reverse(Tail(files)) \o <<files[1]>>

\* r.orderingFunc: the default, or a function of the caller (here one that
\* returns the files latest first).
orderingFunc(kind, files) ==
    IF kind = "alphabetical" THEN AlphabeticalMigrationFilesSorting(files)
    ELSE Reverse(AlphabeticalMigrationFilesSorting(files))

\* os.ReadDir: the entries of the directory, sorted by file name.
RECURSIVE ReadDir(_, _)
ReadDir(listing, from) ==
    IF from > MaxFiles THEN << >>
    ELSE (IF listing[from] = "absent" THEN << >> ELSE <<from>>) \o ReadDir(listing, from + 1)

\* collectSQLFiles: the regular entries with the suffix ".sql", joined to path.
RECURSIVE JoinSQL(_, _, _)
JoinSQL(path, listing, entries) ==
    IF entries = << >> THEN << >>
    ELSE (IF listing[entries[1]] = "sql" THEN << <<path, entries[1]>> >> ELSE << >>)
            \o JoinSQL(path, listing, Tail(entries))

collectSQLFiles(r, path) == JoinSQL(path, r.listing[path], ReadDir(r.listing[path], 1))

\* The first loop of RunMigrations, one directory of migrationPaths per step.
RunMigrations_collect ==
    /\ runner.phase = "running"
    /\ runner.i <= Len(runner.paths)
    /\ LET path == runner.paths[runner.i]
           files == collectSQLFiles(runner, path) IN
       IF path \in runner.unreadable
         THEN runner' = [runner EXCEPT
                  !.phase = "returned",
                  !.err = <<"failed to collect files", "failed to read directory">>]
         ELSE runner' = [runner EXCEPT
                  !.i = @ + 1,
                  !.allFiles = IF Len(files) > 0
                                 THEN @ \o orderingFunc(runner.ordering, files)
                                 ELSE @]
    /\ UNCHANGED <<engine, manager, globalTestDBCounter, locals, ncalls, ctrls, faults, procs, cancelled>>

\* RunMigrations returns the error of the first file that fails.
ExecuteFailedContinues(file, res, e) ==
    runner' = [runner EXCEPT
        !.j = @ + 1,
        !.executed = Append(@, <<file, res>>),
        !.err = e]

ExecuteFailed(file, res, e) ==
    runner' = [runner EXCEPT
        !.phase = "returned",
        !.executed = Append(@, <<file, res>>),
        !.err = e]

\* The second loop of RunMigrations, one executeFile per step: os.ReadFile,
\* then conn.ExecContext of the content.
RunMigrations_executeFile ==
    /\ runner.phase = "running"
    /\ runner.i > Len(runner.paths)
    /\ runner.j <= Len(runner.allFiles)
    /\ LET file == runner.allFiles[runner.j] IN
       \E res \in {"ok", "read error", "exec error"} :
          IF res = "ok"
            THEN runner' = [runner EXCEPT
                     !.j = @ + 1,
                     !.executed = Append(@, <<file, res>>)]
            ELSE ExecuteFailed(file, res,
                     IF res = "read error"
                       THEN <<"failed to execute migration", "failed to read migration file">>
                       ELSE <<"failed to execute migration", "exec error">>)
    /\ UNCHANGED <<engine, manager, globalTestDBCounter, locals, ncalls, ctrls, faults, procs, cancelled>>

\* return nil, once every file was executed.
RunMigrations_return ==
    /\ runner.phase = "running"
    /\ runner.i > Len(runner.paths)
    /\ runner.j > Len(runner.allFiles)
    /\ runner' = [runner EXCEPT !.phase = "returned"]
    /\ UNCHANGED <<engine, manager, globalTestDBCounter, locals, ncalls, ctrls, faults, procs, cancelled>>

----------------------------------------------------------------------------
TypeOK ==
    /\ dbs \subseteq (TemplateNames \cup ExplicitNames \cup AutoNames)
    /\ migrated \subseteq dbs
    /\ isTemplate \subseteq dbs
    /\ initialized \in [Ctrls -> BOOLEAN]
    /\ mu \in [Ctrls -> Procs \cup {NoProc}]
    /\ \A c \in Ctrls : createdTestDBs[c] \subseteq (ExplicitNames \cup AutoNames)
    /\ globalTestDBCounter \in 0..MaxCounter
    /\ ncalls \in 0..CallBound
    /\ ctrls \subseteq Ctrls
    /\ faults \in BOOLEAN
    /\ procs \subseteq Procs
    /\ cancelled \subseteq Procs
    /\ runner.phase \in {"none", "running", "returned"}

\* A fresh process: one controller, no call made yet.  A database with the
\* template's name may be left over from an earlier run that was not cleaned
\* up; it is then a complete template.
InitLocals ==
    /\ pc = [p \in Procs |-> "idle"]
    /\ op = [p \in Procs |-> "none"]
    /\ tm = [p \in Procs |-> "tm1"]
    /\ dbName = [p \in Procs |-> ""]
    /\ err = [p \in Procs |-> Nil]
    /\ stmts = [p \in Procs |-> << >>]
    /\ conns = [p \in Procs |-> {}]
    /\ todo = [p \in Procs |-> {}]
    /\ ncalls = 0
    /\ cancelled = {}
    /\ runner = NoRunner

InitManagers ==
    /\ initialized = [c \in Ctrls |-> FALSE]
    /\ mu = [c \in Ctrls |-> NoProc]
    /\ createdTestDBs = [c \in Ctrls |-> {}]
    /\ globalTestDBCounter = 0

Init ==
    /\ ctrls = {"tm1"}
    /\ faults = TRUE
    /\ procs = Procs
    /\ \E left \in SUBSET {templateName("tm1")} :
        /\ dbs = left
        /\ migrated = left
        /\ isTemplate = left
    /\ InitManagers
    /\ InitLocals

Next ==
    \E p \in Procs :
        \/ Initialize(p)
        \/ createTemplateDatabase_connectAdmin(p)
        \/ createTemplateDatabase_probe(p)
        \/ createTemplateDatabase_create(p)
        \/ createTemplateDatabase_connectTemplate(p)
        \/ createTemplateDatabase_migrate(p)
        \/ createTemplateDatabase_mark(p)
        \/ createTemplateDatabase_compensate(p)
        \/ CreateTestDatabase(p)
        \/ CreateTestDatabase_connectAdmin(p)
        \/ CreateTestDatabase_create(p)
        \/ CreateTestDatabase_connectTest(p)
        \/ CreateTestDatabase_store(p)
        \/ CreateTestDatabase_compensate(p)
        \/ DropTestDatabase(p)
        \/ DropTestDatabase_connectTemplate(p)
        \/ DropTestDatabase_terminate(p)
        \/ DropTestDatabase_drop(p)
        \/ DropTestDatabase_delete(p)
        \/ Cleanup(p)
        \/ Cleanup_connectAdmin(p)
        \/ cleanupTrackedTestDatabases_range(p)
        \/ batchTerminateConnections(p)
        \/ cleanupTrackedTestDatabases_drop(p)
        \/ dropTemplateDatabase_unmark(p)
        \/ dropTemplateDatabase_drop(p)

Spec == Init /\ [][Next]_vars

\* A fresh controller (no database carries the template's name) whose
\* collaborators never fail on their own, and that is not cleaned up.
InitFresh ==
    /\ ctrls = {"tm1"}
    /\ faults = FALSE
    /\ procs = Procs
    /\ dbs = {}
    /\ migrated = {}
    /\ isTemplate = {}
    /\ InitManagers
    /\ InitLocals

NextFresh ==
    \E p \in Procs :
        \/ Initialize(p)
        \/ createTemplateDatabase_connectAdmin(p)
        \/ createTemplateDatabase_probe(p)
        \/ createTemplateDatabase_create(p)
        \/ createTemplateDatabase_connectTemplate(p)
        \/ createTemplateDatabase_migrate(p)
        \/ createTemplateDatabase_mark(p)
        \/ CreateTestDatabase(p)
        \/ CreateTestDatabase_connectAdmin(p)
        \/ CreateTestDatabase_create(p)
        \/ CreateTestDatabase_connectTest(p)
        \/ CreateTestDatabase_store(p)
        \/ CreateTestDatabase_compensate(p)
        \/ DropTestDatabase(p)
        \/ DropTestDatabase_connectTemplate(p)
        \/ DropTestDatabase_terminate(p)
        \/ DropTestDatabase_drop(p)
        \/ DropTestDatabase_delete(p)

SpecFresh == InitFresh /\ [][NextFresh]_vars

\* Two controller instances in one process, sharing the engine and the
\* process-wide counter; each call is made on either of them.
InitMulti ==
    /\ ctrls = Ctrls
    /\ faults = TRUE
    /\ procs = Procs
    /\ \E left \in SUBSET TemplateNames :
        /\ dbs = left
        /\ migrated = left
        /\ isTemplate = left
    /\ InitManagers
    /\ InitLocals

NextMulti ==
    \E p \in Procs :
        \/ CreateTestDatabase(p)
        \/ CreateTestDatabase_connectAdmin(p)
        \/ CreateTestDatabase_create(p)
        \/ CreateTestDatabase_connectTest(p)
        \/ CreateTestDatabase_store(p)
        \/ CreateTestDatabase_compensate(p)

SpecMulti == InitMulti /\ [][NextMulti]_vars

\* An initialized controller in use: the template is complete and the test
\* database "a", created by an earlier CreateTestDatabase, exists and is
\* tracked.  The collaborators never fail on their own; goroutines create and
\* drop test databases.
InitReady ==
    /\ ctrls = {"tm1"}
    /\ faults = FALSE
    /\ procs = Procs
    /\ dbs = {templateName("tm1"), "a"}
    /\ migrated = {templateName("tm1"), "a"}
    /\ isTemplate = {templateName("tm1")}
    /\ initialized = [c \in Ctrls |-> c = "tm1"]
    /\ mu = [c \in Ctrls |-> NoProc]
    /\ createdTestDBs = [c \in Ctrls |-> IF c = "tm1" THEN {"a"} ELSE {}]
    /\ globalTestDBCounter = 0
    /\ InitLocals

NextReady ==
    \E p \in Procs :
        \/ CreateTestDatabase(p)
        \/ CreateTestDatabase_connectAdmin(p)
        \/ CreateTestDatabase_create(p)
        \/ CreateTestDatabase_connectTest(p)
        \/ CreateTestDatabase_store(p)
        \/ CreateTestDatabase_compensate(p)
        \/ DropTestDatabase(p)
        \/ DropTestDatabase_connectTemplate(p)
        \/ DropTestDatabase_terminate(p)
        \/ DropTestDatabase_drop(p)
        \/ DropTestDatabase_delete(p)

SpecReady == InitReady /\ [][NextReady]_vars

\* The same controller when the calls that are in flight at the same time
\* operate on pairwise distinct names.  No connection to a database just
\* created can then fail, so the compensating drop of CreateTestDatabase has
\* no occasion to run.
InFlightDistinct ==
    \A p, q \in Procs :
        (p # q /\ pc[p] # "idle" /\ pc[q] # "idle") => dbName[p] # dbName[q]

\* A call is begun only on a name that no call in flight operates on.
NextDistinct ==
    \E p \in Procs :
        \/ CreateTestDatabase(p) /\ InFlightDistinct'
        \/ CreateTestDatabase_connectAdmin(p)
        \/ CreateTestDatabase_create(p)
        \/ CreateTestDatabase_connectTest(p)
        \/ CreateTestDatabase_store(p)
        \/ DropTestDatabase(p) /\ InFlightDistinct'
        \/ DropTestDatabase_connectTemplate(p)
        \/ DropTestDatabase_terminate(p)
        \/ DropTestDatabase_drop(p)
        \/ DropTestDatabase_delete(p)

SpecDistinct == InitReady /\ [][NextDistinct]_vars

\* The caller cancels the context it passed to the call in flight.  The
\* controller does not watch the context: it only hands it to every
\* collaborator call, here and in the caller's later calls.
Cancel(p) ==
    /\ p \in procs
    /\ pc[p] # "idle"
    /\ p \notin cancelled
    /\ cancelled' = cancelled \cup {p}
    /\ UNCHANGED <<engine, manager, globalTestDBCounter, locals, ncalls, ctrls, faults, procs, runner>>

\* A fresh controller whose collaborators fail only on a cancelled context:
\* goroutines initialize it and create test databases, and callers cancel.
NextCancel ==
    \E p \in Procs :
        \/ Initialize(p)
        \/ createTemplateDatabase_connectAdmin(p)
        \/ createTemplateDatabase_probe(p)
        \/ createTemplateDatabase_create(p)
        \/ createTemplateDatabase_connectTemplate(p)
        \/ createTemplateDatabase_migrate(p)
        \/ createTemplateDatabase_mark(p)
        \/ createTemplateDatabase_compensate(p)
        \/ CreateTestDatabase(p)
        \/ CreateTestDatabase_connectAdmin(p)
        \/ CreateTestDatabase_create(p)
        \/ CreateTestDatabase_connectTest(p)
        \/ CreateTestDatabase_store(p)
        \/ CreateTestDatabase_compensate(p)
        \/ Cancel(p)

SpecCancel == InitFresh /\ [][NextCancel]_vars

\* A FileMigrationRunner constructed over some directories, each with its
\* entries, and one RunMigrations call on it; no controller is at work.
InitRunner ==
    /\ ctrls = {"tm1"}
    /\ faults = TRUE
    /\ procs = Procs
    /\ dbs = {}
    /\ migrated = {}
    /\ isTemplate = {}
    /\ InitManagers
    /\ pc = [p \in Procs |-> "idle"]
    /\ op = [p \in Procs |-> "none"]
    /\ tm = [p \in Procs |-> "tm1"]
    /\ dbName = [p \in Procs |-> ""]
    /\ err = [p \in Procs |-> Nil]
    /\ stmts = [p \in Procs |-> << >>]
    /\ conns = [p \in Procs |-> {}]
    /\ todo = [p \in Procs |-> {}]
    /\ ncalls = 0
    /\ cancelled = {}
    /\ \E paths \in {<< >>} \cup {<<d>> : d \in Dirs} \cup {<<d, e>> : d, e \in Dirs} :
       \E listing \in [Dirs -> [FileNames -> EntryKinds]] :
       \E unreadable \in SUBSET Dirs :
       \E ordering \in {"alphabetical", "reverse"} :
          runner = [phase |-> "running", paths |-> paths, listing |-> listing,
                    unreadable |-> unreadable, ordering |-> ordering,
                    i |-> 1, j |-> 1, allFiles |-> << >>, executed |-> << >>,
                    err |-> Nil]

NextRunner ==
    \/ RunMigrations_collect
    \/ RunMigrations_executeFile
    \/ RunMigrations_return

SpecRunner == InitRunner /\ [][NextRunner]_vars

\* The controller in use (initialized, "a" tracked) at the end of a suite,
\* with collaborators that may fail: goroutines clean up and initialize.
InitRetry ==
    /\ ctrls = {"tm1"}
    /\ faults = TRUE
    /\ procs = Procs
    /\ dbs = {templateName("tm1"), "a"}
    /\ migrated = {templateName("tm1"), "a"}
    /\ isTemplate = {templateName("tm1")}
    /\ initialized = [c \in Ctrls |-> c = "tm1"]
    /\ mu = [c \in Ctrls |-> NoProc]
    /\ createdTestDBs = [c \in Ctrls |-> IF c = "tm1" THEN {"a"} ELSE {}]
    /\ globalTestDBCounter = 0
    /\ InitLocals

NextRetry ==
    \E p \in Procs :
        \/ Initialize(p)
        \/ createTemplateDatabase_connectAdmin(p)
        \/ createTemplateDatabase_probe(p)
        \/ createTemplateDatabase_create(p)
        \/ createTemplateDatabase_connectTemplate(p)
        \/ createTemplateDatabase_migrate(p)
        \/ createTemplateDatabase_mark(p)
        \/ createTemplateDatabase_compensate(p)
        \/ Cleanup(p)
        \/ Cleanup_connectAdmin(p)
        \/ cleanupTrackedTestDatabases_range(p)
        \/ batchTerminateConnections(p)
        \/ cleanupTrackedTestDatabases_drop(p)
        \/ dropTemplateDatabase_unmark(p)
        \/ dropTemplateDatabase_drop(p)

SpecRetry == InitRetry /\ [][NextRetry]_vars

\* One goroutine making its calls one after the other, as a test function
\* does: the same operations, more of them.
InitSeq ==
    /\ ctrls = {"tm1"}
    /\ faults = TRUE
    /\ procs = {"g1"}
    /\ \E left \in SUBSET {templateName("tm1")} :
        /\ dbs = left
        /\ migrated = left
        /\ isTemplate = left
    /\ InitManagers
    /\ InitLocals

SpecSeq == InitSeq /\ [][Next]_vars

----------------------------------------------------------------------------
\* Properties.

\* Goroutine p's call returns in this step.
Returns(p) == pc[p] # "idle" /\ pc'[p] = "idle"

\* C1: whenever initialized is true (and no Initialize or Cleanup is in the
\* middle of its critical section), the template database exists, has had
\* the migrations applied and is marked as a template.
C1_InitializedTemplateComplete ==
    \A c \in ctrls :
        (initialized[c] /\ mu[c] = NoProc) =>
            /\ templateName(c) \in dbs
            /\ templateName(c) \in migrated
            /\ templateName(c) \in isTemplate

\* The message of the step of createTemplateDatabase that failed after the
\* template was created, read off the call's log.
FailedPhase(log, t) ==
    IF Ended(log, "CONNECT", t, FALSE) THEN "failed to connect to template database"
    ELSE IF Ended(log, "MIGRATE", t, FALSE) THEN "failed to run migrations on template"
    ELSE IF Ended(log, "MARK", t, FALSE) THEN "failed to mark database as template"
    ELSE "none"

\* m1 occurs in error e before m2.
Before(e, m1, m2) == \E i, j \in 1..Len(e) : i < j /\ e[i] = m1 /\ e[j] = m2

Last(log) == log[Len(log)]

\* C2: an Initialize that returns success leaves initialized true, and an
\* Initialize called while it is true returns success at once: no connection
\* opened, no statement issued, nothing changed in the engine, initialized
\* still true.
C2_SecondInitializeIsNoOp ==
    [][\A p \in Procs :
        /\ (Initialize(p) /\ initialized[tm'[p]]) =>
              /\ pc'[p] = "idle"
              /\ err'[p] = Nil
              /\ stmts'[p] = << >>
              /\ conns'[p] = {}
              /\ initialized'[tm'[p]]
              /\ UNCHANGED engine
        /\ (op[p] = "Initialize" /\ Returns(p) /\ err'[p] = Nil) => initialized'[tm[p]]
      ]_vars

\* C2 witness: one goroutine's Initialize built the template, the other's
\* Initialize then returned success without a single collaborator call.
C2_Witness ==
    \E p, q \in Procs :
        /\ p # q
        /\ op[q] = "Initialize" /\ pc[q] = "idle" /\ err[q] = Nil
        /\ Ended(stmts[q], "MARK", templateName(tm[q]), TRUE)
        /\ op[p] = "Initialize" /\ pc[p] = "idle" /\ err[p] = Nil
        /\ tm[p] = tm[q]
        /\ stmts[p] = << >>
        /\ initialized[tm[p]]

\* C3: with concurrent Initialize calls on a fresh controller and no
\* collaborator failure, CREATE DATABASE, the migration run and the mark are
\* each issued only while their effect is still absent, their effects are
\* never undone, and every Initialize that has returned returned success with
\* the template created, migrated and marked: each is performed exactly once.
C3_ConcurrentInitializeRunsOnce ==
    [][\A p \in Procs :
        LET t == templateName(tm'[p]) IN
        /\ (pc[p] = "T_create" /\ pc'[p] # "T_create") => t \notin dbs
        /\ (pc[p] = "T_migrate" /\ pc'[p] # "T_migrate") => t \notin migrated
        /\ (pc[p] = "T_mark" /\ pc'[p] # "T_mark") => t \notin isTemplate
        /\ (op'[p] = "Initialize" /\ pc'[p] = "idle") =>
              /\ err'[p] = Nil
              /\ t \in dbs' /\ t \in migrated' /\ t \in isTemplate'
        /\ (t \in dbs => t \in dbs')
        /\ (t \in migrated => t \in migrated')
        /\ (t \in isTemplate => t \in isTemplate')
      ]_vars

\* C3 witness: both goroutines have returned from Initialize; one of them
\* did the work, the other found it done.
C3_Witness ==
    \E p, q \in Procs :
        /\ p # q
        /\ op[p] = "Initialize" /\ pc[p] = "idle"
        /\ op[q] = "Initialize" /\ pc[q] = "idle"
        /\ Ended(stmts[q], "CREATE", templateName(tm[q]), TRUE)
        /\ Ended(stmts[q], "MIGRATE", templateName(tm[q]), TRUE)
        /\ Ended(stmts[q], "MARK", templateName(tm[q]), TRUE)
        /\ stmts[p] = << >>

\* C4: an Initialize that created the template and then failed (connecting
\* to it, migrating it or marking it) issues DROP DATABASE for it as its last
\* statement; if that drop succeeded the template does not exist when the
\* call returns; the returned error names the phase that failed.
C4_FailedInitializeDropsCreatedTemplate ==
    [][\A p \in Procs :
        LET t == templateName(tm[p])
            log == stmts'[p]
        IN
        (/\ op[p] = "Initialize"
         /\ Returns(p)
         /\ Ended(log, "CREATE", t, TRUE)
         /\ FailedPhase(log, t) # "none") =>
              /\ Last(log)[1] = "DROP" /\ Last(log)[2] = t
              /\ Last(log)[3] => t \notin dbs'
              /\ Mentions(err'[p], FailedPhase(log, t))
      ]_vars

\* C4 witness: migrations failed on a template this call created, the
\* compensating drop succeeded and the template is gone.
C4_Witness ==
    \E p \in Procs :
        LET t == templateName(tm[p]) IN
        /\ op[p] = "Initialize" /\ pc[p] = "idle"
        /\ Ended(stmts[p], "CREATE", t, TRUE)
        /\ Ended(stmts[p], "MIGRATE", t, FALSE)
        /\ Ended(stmts[p], "DROP", t, TRUE)
        /\ Mentions(err[p], "failed to run migrations on template")
        /\ t \notin dbs

\* C5: when the compensating drop of Initialize fails too, the returned error
\* holds the original failure and, after it, the drop failure.
C5_DropFailureIsAppended ==
    \A p \in Procs :
        LET t == templateName(tm[p]) IN
        (op[p] = "Initialize" /\ pc[p] = "idle" /\ Ended(stmts[p], "DROP", t, FALSE)) =>
            /\ FailedPhase(stmts[p], t) # "none"
            /\ Mentions(err[p], FailedPhase(stmts[p], t))
            /\ Mentions(err[p], "failed to drop template database")
            /\ Before(err[p], FailedPhase(stmts[p], t), "failed to drop template database")

\* C5 witness: the mark failed, then the drop failed.
C5_Witness ==
    \E p \in Procs :
        LET t == templateName(tm[p]) IN
        /\ op[p] = "Initialize" /\ pc[p] = "idle"
        /\ Ended(stmts[p], "MARK", t, FALSE)
        /\ Ended(stmts[p], "DROP", t, FALSE)
        /\ Mentions(err[p], "failed to mark database as template")
        /\ Mentions(err[p], "failed to drop template database")

\* C6: when the existence probe finds the template, Initialize returns
\* success in that step with initialized true, having issued no CREATE
\* DATABASE, no migration run, no ALTER DATABASE and no DROP DATABASE, and
\* the engine's databases are untouched.
C6_ExistingTemplateIsAdopted ==
    [][\A p \in Procs :
        LET t == templateName(tm[p])
            log == stmts'[p]
        IN
        (pc[p] = "T_probe" /\ Ended(log, "PROBE", t, "found")) =>
              /\ t \in dbs
              /\ pc'[p] = "idle"
              /\ err'[p] = Nil
              /\ initialized'[tm[p]]
              /\ ~Issued(log, "CREATE")
              /\ ~Issued(log, "MIGRATE")
              /\ ~Issued(log, "MARK")
              /\ ~Issued(log, "DROP")
              /\ UNCHANGED engine
      ]_vars

\* C6 witness: an Initialize has returned success after finding the template.
C6_Witness ==
    \E p \in Procs :
        LET t == templateName(tm[p]) IN
        /\ op[p] = "Initialize" /\ pc[p] = "idle" /\ err[p] = Nil
        /\ Ended(stmts[p], "PROBE", t, "found")
        /\ initialized[tm[p]]
        /\ t \in dbs

\* C7: any two CreateTestDatabase calls with generated names, in flight
\* together or just returned, on the same or on different instances, hold
\* different names.
C7_GeneratedNamesDistinct ==
    \A p, q \in Procs :
        (/\ p # q
         /\ op[p] = "CreateTestDatabase" /\ dbName[p] \in AutoNames
         /\ op[q] = "CreateTestDatabase" /\ dbName[q] \in AutoNames) =>
            dbName[p] # dbName[q]

\* C7 witness: two auto-named creations in flight at once on two instances,
\* having read the same clock value.
C7_Witness ==
    \E p, q \in Procs : \E t \in 1..MaxTime : \E m, n \in 1..MaxCounter :
        /\ p # q /\ tm[p] # tm[q]
        /\ op[p] = "CreateTestDatabase" /\ pc[p] # "idle"
        /\ op[q] = "CreateTestDatabase" /\ pc[q] # "idle"
        /\ dbName[p] = Sprintf(testPrefix(tm[p]), t, m)
        /\ dbName[q] = Sprintf(testPrefix(tm[q]), t, n)

\* C8: a CreateTestDatabase whose connection to the new database failed
\* issues DROP DATABASE for it, on the open administrative connection, as its
\* last statement; if that drop succeeded, when the call returns the database
\* does not exist, its name is not tracked and the error is the connect error.
C8_FailedConnectDropsCreatedDatabase ==
    [][\A p \in Procs :
        LET n == dbName[p]
            log == stmts'[p]
        IN
        (/\ op[p] = "CreateTestDatabase"
         /\ Returns(p)
         /\ Ended(log, "CONNECT", n, FALSE)) =>
              /\ Ended(log, "CLONE", n, TRUE)
              /\ Last(log)[1] = "DROP" /\ Last(log)[2] = n
              /\ defaultAdminDBName \in conns[p]
              /\ Last(log)[3] =>
                    /\ n \notin dbs'
                    /\ n \notin createdTestDBs'[tm[p]]
                    /\ err'[p] = Wrap("failed to connect to test database", ConnectErr)
      ]_vars

\* C8 witness: the connection failed, the drop succeeded, the database is gone.
C8_Witness ==
    \E p \in Procs :
        LET n == dbName[p] IN
        /\ op[p] = "CreateTestDatabase" /\ pc[p] = "idle"
        /\ Ended(stmts[p], "CLONE", n, TRUE)
        /\ Ended(stmts[p], "CONNECT", n, FALSE)
        /\ Ended(stmts[p], "DROP", n, TRUE)
        /\ n \notin dbs
        /\ n \notin createdTestDBs[tm[p]]

C10_ExistingNameIsNotDropped ==
    [][\A p \in Procs :
        LET n == dbName[p]
            log == stmts'[p]
        IN
        (/\ pc[p] = "X_create" /\ pc'[p] # "X_create"
         /\ n \in ExplicitNames
         /\ n \in dbs) =>
              /\ pc'[p] = "idle"
              /\ Mentions(err'[p], "failed to create test database")
              /\ Mentions(err'[p], "already exists")
              /\ Count(log, "CLONE") = 1
              /\ ~Issued(log, "DROP")
              /\ n \in dbs'
              /\ UNCHANGED <<engine, createdTestDBs>>
      ]_vars

\* C10 witness: the second creation of a tracked, existing name has failed;
\* the database and its tracked entry are still there.
C10_Witness ==
    \E p \in Procs :
        /\ op[p] = "CreateTestDatabase" /\ pc[p] = "idle"
        /\ dbName[p] \in ExplicitNames
        /\ Mentions(err[p], "already exists")
        /\ dbName[p] \in dbs
        /\ dbName[p] \in createdTestDBs[tm[p]]

----------------------------------------------------------------------------
\* Reading the log of a Cleanup call.

\* The names Cleanup collected from the tracked set (the batch termination
\* is issued for exactly these, when there are any).
CleanupTargets(log) ==
    UNION {log[i][2] : i \in {j \in 1..Len(log) : log[j][1] = "TERMINATE_BATCH"}}

AllSucceeded(log) == \A i \in 1..Len(log) : log[i][3] = TRUE

\* The message under which Cleanup reports the failure of a collaborator call.
FailureMsg(entry, t) ==
    CASE entry[1] = "CONNECT" -> "failed to connect to admin database"
      [] entry[1] = "TERMINATE_BATCH" -> "failed to terminate connections for some databases"
      [] entry[1] = "UNMARK" -> "failed to unmark template database"
      [] entry[1] = "DROP" ->
            IF entry[2] = t THEN "failed to drop template database"
            ELSE DropFailedMsg(entry[2])
      [] OTHER -> "none"

DropLabels == {"D_connectTemplate", "D_terminate", "D_drop", "D_delete"}

\* C11: a DropTestDatabase whose DROP DATABASE runs while the name does not
\* exist returns in that step with the "does not exist" error, the databases
\* and the tracked sets unchanged; and no DropTestDatabase returns success
\* without its DROP DATABASE having succeeded.
C11_DropOfMissingDatabaseFails ==
    [][\A p \in Procs :
        /\ (pc[p] = "D_drop" /\ pc'[p] # "D_drop" /\ dbName[p] \notin dbs) =>
              /\ pc'[p] = "idle"
              /\ err'[p] # Nil
              /\ Mentions(err'[p], "does not exist")
              /\ UNCHANGED <<engine, createdTestDBs>>
        /\ (op[p] = "DropTestDatabase" /\ Returns(p) /\ err'[p] = Nil) =>
              Ended(stmts'[p], "DROP", dbName[p], TRUE)
      ]_vars

\* C11 witness: a drop of a missing name has returned its error.
C11_Witness ==
    \E p \in Procs :
        /\ op[p] = "DropTestDatabase" /\ pc[p] = "idle"
        /\ dbName[p] \notin dbs
        /\ Ended(stmts[p], "DROP", dbName[p], FALSE)
        /\ Mentions(err[p], DropFailedMsg(dbName[p]))
        /\ Mentions(err[p], "does not exist")

\* What the steps of a DropTestDatabase(X) call leave alone: every database
\* but X, every tracked entry but X's on its own instance, every initialized flag.
DropFrame(p) ==
    LET X == dbName[p] IN
    (pc[p] \in DropLabels /\ pc'[p] # pc[p]) =>
        /\ dbs' \ {X} = dbs \ {X}
        /\ migrated' \ {X} = migrated \ {X}
        /\ isTemplate' \ {X} = isTemplate \ {X}
        /\ \A c \in Ctrls :
              IF c = tm[p]
                THEN createdTestDBs'[c] \ {X} = createdTestDBs[c] \ {X}
                ELSE createdTestDBs'[c] = createdTestDBs[c]
        /\ initialized' = initialized

C13_SuccessfulCleanupRemovesEverything ==
    [][\A p \in Procs :
        LET c == tm[p]
            log == stmts'[p]
        IN
        (op[p] = "Cleanup" /\ Returns(p) /\ AllSucceeded(log)) =>
              /\ err'[p] = Nil
              /\ \A n \in CleanupTargets(log) : n \notin dbs'
              /\ templateName(c) \notin dbs'
              /\ createdTestDBs'[c] = {}
              /\ ~initialized'[c]
      ]_vars

\* C13 witness: a Cleanup without failure has dropped two tracked databases
\* and the template.
C13_Witness ==
    \E p \in Procs :
        /\ op[p] = "Cleanup" /\ pc[p] = "idle" /\ err[p] = Nil
        /\ AllSucceeded(stmts[p])
        /\ Cardinality(CleanupTargets(stmts[p])) >= 2
        /\ Ended(stmts[p], "DROP", templateName(tm[p]), TRUE)
        /\ dbs = {}
        /\ createdTestDBs[tm[p]] = {}
        /\ ~initialized[tm[p]]

\* C14: with one goroutine, when a Cleanup returns in which the drop of a
\* tracked database failed, a DROP DATABASE was issued for every database it
\* collected, the template's unmark was issued and, if that succeeded, its
\* DROP DATABASE; the databases whose drop succeeded are no longer tracked,
\* those whose drop failed still are, and the error names each of these.
C14_CleanupContinuesPastFailedDrop ==
    [][\A p \in Procs :
        LET c == tm[p]
            t == templateName(c)
            log == stmts'[p]
            T == CleanupTargets(log)
        IN
        (/\ op[p] = "Cleanup"
         /\ Returns(p)
         /\ \E n \in T : Ended(log, "DROP", n, FALSE)) =>
              /\ \A m \in T : IssuedOn(log, "DROP", m)
              /\ IssuedOn(log, "UNMARK", t)
              /\ Ended(log, "UNMARK", t, TRUE) => IssuedOn(log, "DROP", t)
              /\ \A m \in T :
                    /\ Ended(log, "DROP", m, TRUE) => m \notin createdTestDBs'[c]
                    /\ Ended(log, "DROP", m, FALSE) =>
                          /\ m \in createdTestDBs'[c]
                          /\ Mentions(err'[p], DropFailedMsg(m))
      ]_vars

\* C14 witness: of three tracked databases one failed to drop and two were
\* dropped; the template was dropped too.
C14_Witness ==
    \E p \in Procs :
        LET log == stmts[p]
            T == CleanupTargets(log)
        IN
        /\ op[p] = "Cleanup" /\ pc[p] = "idle"
        /\ Cardinality(T) = 3
        /\ Cardinality({n \in T : Ended(log, "DROP", n, FALSE)}) = 1
        /\ Cardinality({n \in T : Ended(log, "DROP", n, TRUE)}) = 2
        /\ Ended(log, "DROP", templateName(tm[p]), TRUE)
        /\ Cardinality(createdTestDBs[tm[p]]) = 1
        /\ \A n \in createdTestDBs[tm[p]] : Mentions(err[p], DropFailedMsg(n))

\* C15: when a Cleanup that found initialized true returns, initialized is
\* false, whichever of its steps failed.
C15_CleanupAlwaysResetsInitialized ==
    [][\A p \in Procs :
        (op[p] = "Cleanup" /\ Returns(p)) => ~initialized'[tm[p]]
      ]_vars

\* C16: with one goroutine, a Cleanup on an initialized controller returns
\* nil exactly when none of its collaborator calls failed, and otherwise its
\* error holds the message of every call that failed.
C16_CleanupReportsEveryFailure ==
    [][\A p \in Procs :
        LET t == templateName(tm[p])
            log == stmts'[p]
        IN
        (op[p] = "Cleanup" /\ Returns(p)) =>
              /\ (err'[p] = Nil) <=> AllSucceeded(log)
              /\ \A i \in 1..Len(log) :
                    log[i][3] = FALSE => Mentions(err'[p], FailureMsg(log[i], t))
      ]_vars

\* C16 witness: the batch termination, the drop of a tracked database and
\* the template's unmark all failed in one Cleanup, and the error holds all three.
C16_Witness ==
    \E p \in Procs :
        LET t == templateName(tm[p])
            log == stmts[p]
        IN
        /\ op[p] = "Cleanup" /\ pc[p] = "idle"
        /\ Ended(log, "TERMINATE_BATCH", CleanupTargets(log), FALSE)
        /\ \E n \in CleanupTargets(log) :
              /\ Ended(log, "DROP", n, FALSE)
              /\ Mentions(err[p], DropFailedMsg(n))
        /\ Ended(log, "UNMARK", t, FALSE)
        /\ Mentions(err[p], "failed to terminate connections for some databases")
        /\ Mentions(err[p], "failed to unmark template database")

\* C17: with one goroutine, when a Cleanup returns whose batch termination
\* failed, the error holds that failure, a DROP DATABASE was issued for every
\* database it collected and the template's unmark was issued, followed by
\* the template's DROP DATABASE unless the unmark itself failed; if nothing
\* else failed, all of them succeeded and nothing is left.
C17_FailedTerminationDoesNotAbort ==
    [][\A p \in Procs :
        LET c == tm[p]
            t == templateName(c)
            log == stmts'[p]
            T == CleanupTargets(log)
        IN
        (/\ op[p] = "Cleanup"
         /\ Returns(p)
         /\ Ended(log, "TERMINATE_BATCH", T, FALSE)) =>
              /\ Mentions(err'[p], "failed to terminate connections for some databases")
              /\ \A n \in T : IssuedOn(log, "DROP", n)
              /\ IssuedOn(log, "UNMARK", t)
              /\ Ended(log, "UNMARK", t, TRUE) => IssuedOn(log, "DROP", t)
              /\ (Count(log, "DROP") = Cardinality(T) + 1
                  /\ \A i \in 1..Len(log) :
                        log[i][3] = FALSE => log[i][1] = "TERMINATE_BATCH") =>
                    /\ \A n \in T : n \notin dbs'
                    /\ t \notin dbs'
                    /\ createdTestDBs'[c] = {}
      ]_vars

\* C17 witness: only the batch termination failed; both tracked databases
\* and the template were dropped all the same.
C17_Witness ==
    \E p \in Procs :
        LET t == templateName(tm[p])
            log == stmts[p]
            T == CleanupTargets(log)
        IN
        /\ op[p] = "Cleanup" /\ pc[p] = "idle"
        /\ Cardinality(T) >= 2
        /\ Ended(log, "TERMINATE_BATCH", T, FALSE)
        /\ \A n \in T : Ended(log, "DROP", n, TRUE)
        /\ Ended(log, "UNMARK", t, TRUE)
        /\ Ended(log, "DROP", t, TRUE)
        /\ Mentions(err[p], "failed to terminate connections for some databases")
        /\ dbs = {}

\* C18: a Cleanup called while initialized is false returns success at once:
\* no connection opened, no statement issued, the engine, the tracked sets,
\* the initialized flags and the mutex as they were.
C18_CleanupWhenNotInitializedIsNoOp ==
    [][\A p \in Procs :
        (Cleanup(p) /\ ~initialized[tm'[p]]) =>
              /\ pc'[p] = "idle"
              /\ err'[p] = Nil
              /\ stmts'[p] = << >>
              /\ conns'[p] = {}
              /\ UNCHANGED <<engine, manager>>
      ]_vars

\* C18 witness: a second Cleanup after one that tore the template down has
\* returned success without a collaborator call.
C18_Witness ==
    \E p, q \in Procs :
        /\ p # q
        /\ tm[p] = tm[q]
        /\ op[q] = "Cleanup" /\ pc[q] = "idle"
        /\ IssuedOn(stmts[q], "UNMARK", templateName(tm[q]))
        /\ op[p] = "Cleanup" /\ pc[p] = "idle" /\ err[p] = Nil
        /\ stmts[p] = << >>
        /\ ~initialized[tm[p]]

\* The positions between the initialized check and the return of Initialize
\* and of Cleanup.
InitializeLabels ==
    {"T_connectAdmin", "T_probe", "T_create", "T_connectTemplate", "T_migrate",
     "T_mark", "T_compensate"}

CleanupLabels ==
    {"C_connectAdmin", "C_range", "C_terminate", "C_drop", "C_unmark", "C_dropTemplate"}

\* C19: on one controller at most one goroutine is between the initialized
\* check and the return of an Initialize or a Cleanup, and it holds the mutex.
C19_InitializeCleanupExclusive ==
    \A c \in ctrls :
        LET inside == {p \in Procs : tm[p] = c /\ pc[p] \in InitializeLabels \cup CleanupLabels} IN
        /\ Cardinality(inside) <= 1
        /\ \A p \in inside : mu[c] = p
        /\ inside = {} => mu[c] = NoProc

\* C19 witness: one goroutine is in the middle of the teardown, holding the
\* mutex, after the other one's Initialize on the same controller returned.
C19_Witness ==
    \E p, q \in Procs :
        /\ p # q
        /\ tm[p] = tm[q]
        /\ pc[p] = "C_unmark" /\ mu[tm[p]] = p
        /\ op[q] = "Initialize" /\ pc[q] = "idle"

\* The Initialize call of p, returning in this step, created the template,
\* migrated it and marked it.
BuiltFromScratch(p) ==
    LET t == templateName(tm[p]) IN
    /\ Ended(stmts'[p], "CREATE", t, TRUE)
    /\ Ended(stmts'[p], "MIGRATE", t, TRUE)
    /\ Ended(stmts'[p], "MARK", t, TRUE)

\* C20 as stated: whenever initialized goes from false to true after a Cleanup
\* (one that ran the teardown) has returned, the Initialize that set it
\* issued CREATE DATABASE for the template, ran the migrations and marked it.
C20_ReinitializeRecreatesTemplate ==
    [][\A c \in ctrls :
        (/\ ~initialized[c] /\ initialized'[c]
         /\ \E q \in Procs :
              /\ op[q] = "Cleanup" /\ pc[q] = "idle" /\ tm[q] = c
              /\ IssuedOn(stmts[q], "UNMARK", templateName(c))) =>
            \E p \in Procs :
              /\ op[p] = "Initialize" /\ tm[p] = c /\ Returns(p)
              /\ BuiltFromScratch(p)
      ]_vars

\* C20 amended: a Cleanup whose DROP DATABASE of the template succeeded
\* returns with initialized false and the template gone; the template comes
\* into existence only by the CREATE DATABASE of an Initialize; the existence
\* probe reports a template only when there is one; and whenever initialized
\* goes from false to true, the Initialize that set it either built the
\* template from scratch or found a database of that name still there (left
\* by a Cleanup or an Initialize that failed to drop it) and adopted it.
C20_ReinitializeRecreatesDroppedTemplate ==
    [][\A c \in ctrls :
        LET t == templateName(c) IN
        /\ \A p \in Procs :
              (op[p] = "Cleanup" /\ tm[p] = c /\ Returns(p)
                 /\ Ended(stmts'[p], "DROP", t, TRUE)) =>
                    (~initialized'[c] /\ t \notin dbs')
        /\ (t \notin dbs /\ t \in dbs') =>
              \E p \in Procs : pc[p] = "T_create" /\ tm[p] = c /\ op[p] = "Initialize"
        /\ \A p \in Procs :
              (pc[p] = "T_probe" /\ tm[p] = c /\ pc'[p] # "T_probe" /\ t \notin dbs) =>
                    ~Ended(stmts'[p], "PROBE", t, "found")
        /\ (~initialized[c] /\ initialized'[c]) =>
              \E p \in Procs :
                /\ op[p] = "Initialize" /\ tm[p] = c /\ Returns(p)
                /\ \/ BuiltFromScratch(p)
                   \/ Ended(stmts'[p], "PROBE", t, "found") /\ t \in dbs
      ]_vars

\* C20 witness: after a Cleanup that dropped the template, an Initialize has
\* built it again from scratch.
C20_Witness ==
    \E p, q \in Procs :
        LET t == templateName(tm[p]) IN
        /\ p # q /\ tm[p] = tm[q]
        /\ op[q] = "Cleanup" /\ pc[q] = "idle"
        /\ Ended(stmts[q], "DROP", t, TRUE)
        /\ op[p] = "Initialize" /\ pc[p] = "idle" /\ err[p] = Nil
        /\ Ended(stmts[p], "CREATE", t, TRUE)
        /\ Ended(stmts[p], "MIGRATE", t, TRUE)
        /\ Ended(stmts[p], "MARK", t, TRUE)
        /\ initialized[tm[p]]

\* C21: a goroutine with no call in flight holds no connection the controller
\* opened, after a success and after every failure, except the connection to
\* the test database that its last call, a successful CreateTestDatabase,
\* handed to it.
C21_NoConnectionLeftOpen ==
    \A p \in Procs :
        pc[p] = "idle" =>
            conns[p] = IF op[p] = "CreateTestDatabase" /\ err[p] = Nil
                         THEN {dbName[p]}
                         ELSE {}

\* C21 witness: one goroutine's Initialize failed after it had connected to
\* the administrative and to the template database and holds nothing; the other's succeeded and holds the
\* test database's connection only.
C21_Witness ==
    \E p, q \in Procs :
        /\ p # q
        /\ op[p] = "Initialize" /\ pc[p] = "idle" /\ err[p] # Nil
        /\ Ended(stmts[p], "CONNECT", defaultAdminDBName, TRUE)
        /\ Ended(stmts[p], "CONNECT", templateName(tm[p]), TRUE)
        /\ conns[p] = {}
        /\ op[q] = "CreateTestDatabase" /\ pc[q] = "idle" /\ err[q] = Nil
        /\ conns[q] = {dbName[q]}

\* C22: a CreateTestDatabase call made while initialized is false never
\* returns success, clones no database and leaves the tracked set as it was.
\* The code never reads the flag in CreateTestDatabase: with a database of
\* the template's name in place (left by an earlier run, by a failed
\* Initialize whose compensating DROP failed, or by a failed Cleanup) the
\* call clones it and succeeds.
C22_CreateRequiresInitialized ==
    [][\A p \in Procs :
        (op[p] = "CreateTestDatabase" /\ Returns(p) /\ ~initialized[tm[p]]) =>
              /\ err'[p] # Nil
              /\ ~Ended(stmts'[p], "CLONE", dbName[p], TRUE)
              /\ createdTestDBs' = createdTestDBs
      ]_vars

\* The step of p appends a statement of this kind to its log.
Issues(p, kind) ==
    /\ Len(stmts'[p]) = Len(stmts[p]) + 1
    /\ Last(stmts'[p])[1] = kind

\* C23: in an Initialize the migrations are run only after its CREATE DATABASE
\* has succeeded, the database is marked as a template only after the
\* migrations have returned success, and initialized goes from false to true
\* only in the return of an Initialize that has either found the template or
\* just marked the one it created (CREATE, migrations, mark, in this order).
C23_InitializeStepsInOrder ==
    [][/\ \A p \in Procs :
            LET t == templateName(tm[p])
                log == stmts[p] IN
            (op[p] = "Initialize" /\ pc[p] # "idle") =>
                /\ Issues(p, "MIGRATE") => Ended(log, "CREATE", t, TRUE)
                /\ Issues(p, "MARK") =>
                      /\ Ended(log, "MIGRATE", t, TRUE)
                      /\ t \in migrated
                /\ initialized'[tm[p]] # initialized[tm[p]] =>
                      /\ Returns(p) /\ err'[p] = Nil
                      /\ \/ Last(stmts'[p]) = <<"PROBE", t, "found">>
                         \/ /\ Last(stmts'[p]) = <<"MARK", t, TRUE>>
                            /\ Issues(p, "MARK")
                            /\ t \in isTemplate'
       /\ \A c \in ctrls :
            (~initialized[c] /\ initialized'[c]) =>
                \E p \in Procs : tm[p] = c /\ op[p] = "Initialize" /\ Returns(p)
      ]_vars

\* C23 witness: an Initialize has created the template, run the migrations,
\* marked it and set initialized.
C23_Witness ==
    \E p \in Procs :
        LET t == templateName(tm[p])
            log == stmts[p] IN
        /\ op[p] = "Initialize" /\ pc[p] = "idle" /\ err[p] = Nil
        /\ initialized[tm[p]]
        /\ \E i, j, k \in 1..Len(log) :
              /\ i < j /\ j < k /\ k = Len(log)
              /\ log[i] = <<"CREATE", t, TRUE>>
              /\ log[j] = <<"MIGRATE", t, TRUE>>
              /\ log[k] = <<"MARK", t, TRUE>>

\* The statement with which an Initialize fails before it has a template of
\* its own, and the message under which the failure is reported.
EarlyFailure(entry, t) ==
    CASE entry[1] = "CONNECT" /\ entry[2] = defaultAdminDBName /\ entry[3] = FALSE ->
            "failed to connect to admin database"
      [] entry[1] = "PROBE" /\ entry[3] = "error" -> "failed to check if template exists"
      [] entry[1] = "CREATE" /\ entry[3] = FALSE -> "failed to create template database"
      [] OTHER -> "none"

\* C24: an Initialize whose connection to the administrative database, whose
\* probe (with an error other than "no rows") or whose CREATE DATABASE has
\* failed has returned that error in the same step and issued nothing after
\* it: no CREATE after a failed probe, and no DROP of the template.
C24_EarlyFailureEndsInitialize ==
    \A p \in Procs :
        LET t == templateName(tm[p])
            log == stmts[p] IN
        op[p] = "Initialize" =>
            \A i \in 1..Len(log) :
                EarlyFailure(log[i], t) # "none" =>
                    /\ i = Len(log)
                    /\ pc[p] = "idle"
                    /\ Mentions(err[p], EarlyFailure(log[i], t))
                    /\ ~Issued(log, "DROP")
                    /\ log[i][1] # "CREATE" => ~Issued(log, "CREATE")
                    /\ ~Issued(log, "MIGRATE") /\ ~Issued(log, "MARK")
                    /\ conns[p] = {}

\* C24 witness: an Initialize has returned the error of its probe, and
\* another the error of its CREATE DATABASE.
C24_Witness ==
    \E p, q \in Procs :
        /\ p # q
        /\ op[p] = "Initialize" /\ pc[p] = "idle" /\ err[p] # Nil
        /\ Len(stmts[p]) > 0
        /\ EarlyFailure(Last(stmts[p]), templateName(tm[p])) = "failed to check if template exists"
        /\ op[q] = "Initialize" /\ pc[q] = "idle" /\ err[q] # Nil
        /\ Len(stmts[q]) > 0
        /\ EarlyFailure(Last(stmts[q]), templateName(tm[q])) = "failed to create template database"

\* C25: an Initialize that returns an error, in whichever phase it failed,
\* leaves initialized false and the mutex free; and an Initialize called while
\* initialized is false does not return at once but goes on to connect to the
\* administrative database, to probe and to create.
C25_FailedInitializeLeavesUninitialized ==
    [][\A p \in Procs :
        /\ (op[p] = "Initialize" /\ Returns(p) /\ err'[p] # Nil) =>
              /\ ~initialized[tm[p]]
              /\ ~initialized'[tm[p]]
              /\ mu'[tm[p]] = NoProc
        /\ (Initialize(p) /\ ~initialized[tm'[p]]) =>
              /\ pc'[p] = "T_connectAdmin"
              /\ mu'[tm'[p]] = p
      ]_vars

\* C25 witness: of the two calls made so far the first, an Initialize that
\* failed after its CREATE DATABASE, has returned; the second, an Initialize
\* on the same controller, has probed again and is about to create.
C25_Witness ==
    \E p, q \in Procs :
        /\ p # q /\ tm[p] = tm[q] /\ ncalls = 2
        /\ op[q] = "Initialize" /\ pc[q] = "idle" /\ err[q] # Nil
        /\ Ended(stmts[q], "CREATE", templateName(tm[q]), TRUE)
        /\ op[p] = "Initialize" /\ pc[p] = "T_create"
        /\ Last(stmts[p]) = <<"PROBE", templateName(tm[p]), "norows">>
        /\ ~initialized[tm[p]]

\* C26: DropTestDatabase issues DROP DATABASE only after its termination
\* query, and only if that query succeeded; a failed termination query ends
\* the call in the same step with that error, no DROP issued, the databases
\* (the target among them) and the tracked sets as they were.
C26_DropOnlyAfterTermination ==
    [][\A p \in Procs :
        LET n == dbName[p] IN
        (op[p] = "DropTestDatabase" /\ pc[p] # "idle") =>
            /\ Issues(p, "DROP") =>
                  /\ Len(stmts[p]) > 0
                  /\ Last(stmts[p])[1] = "TERMINATE"
                  /\ Last(stmts[p])[2] = n
                  /\ Last(stmts[p])[3] = TRUE
            /\ (Issues(p, "TERMINATE") /\ Last(stmts'[p])[3] = FALSE) =>
                  /\ Returns(p)
                  /\ Mentions(err'[p], "failed to terminate connections to database")
                  /\ ~Issued(stmts'[p], "DROP")
                  /\ UNCHANGED <<engine, createdTestDBs>>
      ]_vars

\* C26 witness: a DropTestDatabase of an existing, tracked database has
\* returned the error of its termination query; the database is still there
\* and still tracked.
C26_Witness ==
    \E p \in Procs :
        LET n == dbName[p] IN
        /\ op[p] = "DropTestDatabase" /\ pc[p] = "idle"
        /\ Last(stmts[p])[1] = "TERMINATE" /\ Last(stmts[p])[3] = FALSE
        /\ Mentions(err[p], "failed to terminate connections to database")
        /\ n \in dbs /\ n \in createdTestDBs[tm[p]]

\* C27: the statements of one Cleanup come in this order: the batch
\* termination, a DROP for each name of the tracked snapshot, the unmark of
\* the template, the DROP of the template.  A tracked database is dropped only
\* after the batch termination that named it; the template is unmarked only
\* after a DROP has been attempted for every name of the snapshot; the
\* template's DROP comes right after a successful unmark and is the last
\* statement.
C27_CleanupStatementsInOrder ==
    \A p \in Procs :
        LET t == templateName(tm[p])
            log == stmts[p]
            snapshot == CleanupTargets(log) IN
        op[p] = "Cleanup" =>
            \A i \in 1..Len(log) :
                /\ log[i][1] = "TERMINATE_BATCH" =>
                      \A j \in 1..(i - 1) : log[j][1] = "CONNECT"
                /\ (log[i][1] = "DROP" /\ log[i][2] # t) =>
                      /\ log[i][2] \in snapshot
                      /\ \E j \in 1..(i - 1) : log[j][1] = "TERMINATE_BATCH"
                      /\ \A j \in 1..(i - 1) : log[j][1] # "UNMARK"
                /\ log[i][1] = "UNMARK" =>
                      /\ \A n \in snapshot :
                            \E j \in 1..(i - 1) : log[j][1] = "DROP" /\ log[j][2] = n
                      /\ \A j \in 1..(i - 1) : ~(log[j][1] = "DROP" /\ log[j][2] = t)
                /\ (log[i][1] = "DROP" /\ log[i][2] = t) =>
                      /\ i = Len(log) /\ i > 1
                      /\ log[i - 1][1] = "UNMARK"
                      /\ log[i - 1][3] = TRUE

\* C27 witness: a Cleanup has terminated the connections of two tracked
\* databases, attempted the DROP of both (one failed), unmarked the template
\* and dropped it.
C27_Witness ==
    \E p \in Procs :
        LET t == templateName(tm[p])
            log == stmts[p] IN
        /\ op[p] = "Cleanup" /\ pc[p] = "idle"
        /\ Cardinality(CleanupTargets(log)) = 2
        /\ \E n \in CleanupTargets(log) : Ended(log, "DROP", n, FALSE)
        /\ Ended(log, "UNMARK", t, TRUE)
        /\ Ended(log, "DROP", t, TRUE)

\* C29: whenever a name is inserted into a controller's tracked set, a
\* database of that name exists at that moment.  The code inserts the name
\* after it has connected to the new database, without holding a lock: a
\* DropTestDatabase of the same name that runs between the connection and
\* the insertion drops the database, and the insertion then tracks a name
\* that no longer exists.
C29_TrackedNameExistsAtInsertion ==
    [][\A c \in ctrls :
        \A n \in createdTestDBs'[c] \ createdTestDBs[c] : n \in dbs /\ n \in dbs'
      ]_vars

C30_DoubleDropIsAnError ==
    \A p, q \in Procs :
        (/\ p # q /\ ncalls = 2
         /\ op[p] = "DropTestDatabase" /\ pc[p] = "idle"
         /\ op[q] = "DropTestDatabase" /\ pc[q] = "idle"
         /\ dbName[p] = dbName[q] /\ tm[p] = tm[q]) =>
            /\ (err[p] = Nil) # (err[q] = Nil)
            /\ err[p] # Nil =>
                  /\ Last(stmts[p]) = <<"DROP", dbName[p], FALSE>>
                  /\ Mentions(err[p], "does not exist")
            /\ dbName[p] \notin dbs
            /\ dbName[p] \notin createdTestDBs[tm[p]]

\* C30 witness: two goroutines have each called DropTestDatabase("a") and
\* returned, one with an error and one with success; "a" is gone.
C30_Witness ==
    \E p, q \in Procs :
        /\ p # q /\ ncalls = 2
        /\ op[p] = "DropTestDatabase" /\ pc[p] = "idle" /\ err[p] # Nil
        /\ op[q] = "DropTestDatabase" /\ pc[q] = "idle" /\ err[q] = Nil
        /\ dbName[p] = "a" /\ dbName[q] = "a"
        /\ "a" \notin dbs

\* The database a call has created ("none" if it has created none), and
\* whether a collaborator call that followed the creation has failed.
CreatedBy(o, log, t, n) ==
    CASE o = "Initialize" /\ Ended(log, "CREATE", t, TRUE) -> t
      [] o = "CreateTestDatabase" /\ Ended(log, "CLONE", n, TRUE) -> n
      [] OTHER -> "none"

FailedAfterCreation(o, log, t, n) ==
    CASE o = "Initialize" -> FailedPhase(log, t) # "none"
      [] o = "CreateTestDatabase" -> Ended(log, "CONNECT", n, FALSE)
      [] OTHER -> FALSE

\* C31: when the context of an Initialize or a CreateTestDatabase is
\* cancelled after the call has created its database and a collaborator call
\* that follows fails, the call goes on to its deferred function with the
\* administrative connection still open, issues DROP DATABASE for the
\* database it created as its last statement, and returns an error.
C31_CancelledCallStillCompensates ==
    [][\A p \in cancelled :
        LET o == op[p]
            t == templateName(tm[p])
            n == dbName[p]
            log == stmts'[p]
            created == CreatedBy(o, log, t, n) IN
        (pc[p] # "idle" /\ created # "none" /\ FailedAfterCreation(o, log, t, n)) =>
            /\ err'[p] # Nil
            /\ pc'[p] \in {"T_compensate", "X_compensate"} =>
                  /\ defaultAdminDBName \in conns'[p]
                  /\ ~Issued(log, "DROP")
            /\ Returns(p) =>
                  /\ pc[p] \in {"T_compensate", "X_compensate"}
                  /\ defaultAdminDBName \in conns[p]
                  /\ Issues(p, "DROP")
                  /\ Last(log)[2] = created
                  /\ Count(log, "DROP") = 1
            /\ pc'[p] \in {"T_compensate", "X_compensate", "idle"}
      ]_vars

\* C31 witness: a cancelled Initialize and a cancelled CreateTestDatabase
\* have each created their database, failed in the call that followed,
\* attempted the DROP (which also failed) and returned both errors.
C31_Witness ==
    \E p, q \in cancelled :
        LET t == templateName(tm[p])
            n == dbName[q] IN
        /\ op[p] = "Initialize" /\ pc[p] = "idle"
        /\ Ended(stmts[p], "CREATE", t, TRUE)
        /\ Ended(stmts[p], "MIGRATE", t, FALSE)
        /\ Ended(stmts[p], "DROP", t, FALSE)
        /\ Mentions(err[p], "failed to run migrations on template")
        /\ Mentions(err[p], "failed to drop template database")
        /\ op[q] = "CreateTestDatabase" /\ pc[q] = "idle"
        /\ Ended(stmts[q], "CLONE", n, TRUE)
        /\ Ended(stmts[q], "CONNECT", n, FALSE)
        /\ Issued(stmts[q], "DROP")
        /\ err[q] # Nil

\* The ".sql" files of a directory, and the one arrangement of a set of paths
\* in ascending order.
SQLFiles(r, d) == {<<d, n>> : n \in {m \in FileNames : r.listing[d][m] = "sql"}}

Ascending(S) ==
    CHOOSE s \in [1..Cardinality(S) -> S] :
        \A k, l \in 1..Cardinality(S) : k < l => PathLess(s[k], s[l])

\* The files in the order RunMigrations is to execute them: directory by
\* directory in the configured order, each directory's files as the ordering
\* function returns them.
RECURSIVE ExpectedOrder(_, _)
ExpectedOrder(r, k) ==
    IF k > Len(r.paths) THEN << >>
    ELSE LET asc == Ascending(SQLFiles(r, r.paths[k]))
             n == Len(asc)
             inDir == IF r.ordering = "alphabetical" THEN asc
                      ELSE [x \in 1..n |-> asc[n + 1 - x]]
         IN inDir \o ExpectedOrder(r, k + 1)

\* C32: RunMigrations executes the files directory by directory in the
\* configured order, the files of a directory in the order the ordering
\* function returns, and only once every directory was read; the first file
\* that fails (to be read or to execute) is the last one attempted, and its
\* error is returned; a call that returns nil has executed every file.
C32_MigrationsInOrderFailFast ==
    runner.phase # "none" =>
        LET r == runner
            expected == ExpectedOrder(r, 1)
            done == r.executed IN
        /\ Len(done) <= Len(expected)
        /\ \A k \in 1..Len(done) :
              /\ done[k][1] = expected[k]
              /\ k < Len(done) => done[k][2] = "ok"
              /\ done[k][2] # "ok" =>
                    /\ r.phase = "returned"
                    /\ r.err # Nil /\ r.err[1] = "failed to execute migration"
        /\ Len(done) > 0 => \A k \in 1..Len(r.paths) : r.paths[k] \notin r.unreadable
        /\ (r.phase = "returned" /\ r.err = Nil) => Len(done) = Len(expected)

\* C32 witness: with two directories of two files each, taken in the order
\* second directory first and latest file first, the run has executed two
\* files and returned the error of the third.
C32_Witness ==
    /\ runner.phase = "returned"
    /\ runner.paths = <<2, 1>>
    /\ runner.ordering = "reverse"
    /\ Len(runner.executed) = 3
    /\ runner.executed[1] = << <<2, 2>>, "ok" >>
    /\ runner.executed[2] = << <<2, 1>>, "ok" >>
    /\ runner.executed[3] = << <<1, 2>>, "exec error" >>
    /\ Len(runner.allFiles) = 4
    /\ runner.err # Nil

\* The test databases in existence.
TestDatabases == dbs \ TemplateNames

\* Of the three calls made, one goroutine's last is a Cleanup that tore the
\* controller down and returned nil, the other's a CreateTestDatabase that
\* returned nil, and nothing is in flight.
CleanupAndCreateReturned(p, q) ==
    /\ p # q /\ ncalls = 3 /\ tm[p] = tm[q]
    /\ op[p] = "Cleanup" /\ pc[p] = "idle" /\ err[p] = Nil /\ stmts[p] # << >>
    /\ op[q] = "CreateTestDatabase" /\ pc[q] = "idle" /\ err[q] = Nil

C34_NoCloneWhileTemplateConnected ==
    [][\A p \in Procs :
        Issues(p, "CLONE") =>
            \A q \in Procs : templateName(tm[p]) \notin conns[q]
      ]_vars

\* C35: whenever no call is in flight, every test database that exists (each
\* was created by a CreateTestDatabase of the one controller and not dropped
\* since) is in the tracked set, those created by a CreateTestDatabase that
\* returned an error included.  The code stores the name only after the
\* connection to the new database has succeeded: when that connection fails
\* and the compensating DROP fails as well, the database exists untracked.
C35_ExistingTestDatabasesAreTracked ==
    (\A p \in Procs : pc[p] = "idle") =>
        \A c \in ctrls : TestDatabases \subseteq createdTestDBs[c]

\* The i-th statement of the log is preceded by a successful one of this kind
\* on this target.
SucceededBefore(log, i, kind, target) ==
    \E j \in 1..(i - 1) : log[j][1] = kind /\ log[j][2] = target /\ log[j][3] = TRUE

\* C36: every DROP DATABASE a call issues is for the name passed to
\* DropTestDatabase, for a name of the snapshot of the Cleanup or for the
\* template in a Cleanup, for the template in the Initialize that created it,
\* or for the database the same CreateTestDatabase created; never for the
\* administrative database.
C36_DropsOnlyItsOwnDatabases ==
    \A p \in Procs :
        LET log == stmts[p]
            t == templateName(tm[p]) IN
        \A i \in 1..Len(log) :
            log[i][1] = "DROP" =>
                /\ log[i][2] # defaultAdminDBName
                /\ CASE op[p] = "DropTestDatabase" -> log[i][2] = dbName[p]
                     [] op[p] = "Cleanup" ->
                            \/ log[i][2] \in CleanupTargets(log)
                            \/ log[i][2] = t
                     [] op[p] = "Initialize" ->
                            /\ log[i][2] = t
                            /\ SucceededBefore(log, i, "CREATE", t)
                     [] op[p] = "CreateTestDatabase" ->
                            /\ log[i][2] = dbName[p]
                            /\ SucceededBefore(log, i, "CLONE", dbName[p])
                     [] OTHER -> FALSE

\* C36 witness: a Cleanup has dropped a database of its snapshot, created by
\* the other goroutine's CreateTestDatabase, and then the template.
C36_Witness ==
    \E p, q \in Procs :
        /\ op[p] = "Cleanup" /\ pc[p] = "idle"
        /\ op[q] = "CreateTestDatabase" /\ err[q] = Nil
        /\ dbName[q] \in CleanupTargets(stmts[p])
        /\ Ended(stmts[p], "DROP", dbName[q], TRUE)
        /\ Ended(stmts[p], "DROP", templateName(tm[p]), TRUE)

\* The last call of q is a Cleanup that has returned and whose DROP of the
\* tracked database n failed.
CleanupFailedToDrop(q, n) ==
    /\ op[q] = "Cleanup" /\ pc[q] = "idle"
    /\ n \in CleanupTargets(stmts[q])
    /\ Ended(stmts[q], "DROP", n, FALSE)

Initialize_block(p) ==
    \E c \in ctrls :
        /\ ~MuFree(c)
        /\ Begin(p, c, "Initialize", "T_lock", "")
        /\ UNCHANGED <<engine, manager, globalTestDBCounter, setup>>

\* The blocked tm.mu.Lock() of Initialize returns; the initialized check.
Initialize_lock(p) ==
    /\ pc[p] = "T_lock"
    /\ MuFree(tm[p])
    /\ IF AlreadyInitialized(tm[p])
         THEN /\ Goto(p, "idle")
              /\ UNCHANGED manager
         ELSE /\ Goto(p, "T_connectAdmin")
              /\ Lock(p, tm[p])
              /\ UNCHANGED <<initialized, createdTestDBs>>
    /\ UNCHANGED <<engine, globalTestDBCounter, setup, ncalls,
                   op, tm, dbName, err, stmts, conns, todo>>

\* Cleanup calls tm.mu.Lock() while the mutex is held.
Cleanup_block(p) ==
    \E c \in ctrls :
        /\ ~MuFree(c)
        /\ Begin(p, c, "Cleanup", "C_lock", "")
        /\ UNCHANGED <<engine, manager, globalTestDBCounter, setup>>

\* The blocked tm.mu.Lock() of Cleanup returns; the initialized check.
Cleanup_lock(p) ==
    /\ pc[p] = "C_lock"
    /\ MuFree(tm[p])
    /\ IF NotInitialized(tm[p])
         THEN /\ Goto(p, "idle")
              /\ UNCHANGED manager
         ELSE /\ Goto(p, "C_connectAdmin")
              /\ Lock(p, tm[p])
              /\ UNCHANGED <<initialized, createdTestDBs>>
    /\ UNCHANGED <<engine, globalTestDBCounter, setup, ncalls,
                   op, tm, dbName, err, stmts, conns, todo>>

\* A collaborator call of an in-flight operation returns and the operation
\* takes its next step.
CollaboratorReturns(p) ==
    \/ createTemplateDatabase_connectAdmin(p)
    \/ createTemplateDatabase_probe(p)
    \/ createTemplateDatabase_create(p)
    \/ createTemplateDatabase_connectTemplate(p)
    \/ createTemplateDatabase_migrate(p)
    \/ createTemplateDatabase_mark(p)
    \/ createTemplateDatabase_compensate(p)
    \/ CreateTestDatabase_connectAdmin(p)
    \/ CreateTestDatabase_create(p)
    \/ CreateTestDatabase_connectTest(p)
    \/ CreateTestDatabase_store(p)
    \/ CreateTestDatabase_compensate(p)
    \/ DropTestDatabase_connectTemplate(p)
    \/ DropTestDatabase_terminate(p)
    \/ DropTestDatabase_drop(p)
    \/ DropTestDatabase_delete(p)
    \/ Cleanup_connectAdmin(p)
    \/ cleanupTrackedTestDatabases_range(p)
    \/ batchTerminateConnections(p)
    \/ cleanupTrackedTestDatabases_drop(p)
    \/ dropTemplateDatabase_unmark(p)
    \/ dropTemplateDatabase_drop(p)

\* A goroutine blocked in tm.mu.Lock() gets the mutex.
MutexAcquired(p) == Initialize_lock(p) \/ Cleanup_lock(p)

NextLive ==
    \E p \in Procs :
        \/ Initialize(p)
        \/ Initialize_block(p)
        \/ Initialize_lock(p)
        \/ createTemplateDatabase_connectAdmin(p)
        \/ createTemplateDatabase_probe(p)
        \/ createTemplateDatabase_create(p)
        \/ createTemplateDatabase_connectTemplate(p)
        \/ createTemplateDatabase_migrate(p)
        \/ createTemplateDatabase_mark(p)
        \/ createTemplateDatabase_compensate(p)
        \/ CreateTestDatabase(p)
        \/ CreateTestDatabase_connectAdmin(p)
        \/ CreateTestDatabase_create(p)
        \/ CreateTestDatabase_connectTest(p)
        \/ CreateTestDatabase_store(p)
        \/ CreateTestDatabase_compensate(p)
        \/ DropTestDatabase(p)
        \/ DropTestDatabase_connectTemplate(p)
        \/ DropTestDatabase_terminate(p)
        \/ DropTestDatabase_drop(p)
        \/ DropTestDatabase_delete(p)
        \/ Cleanup(p)
        \/ Cleanup_block(p)
        \/ Cleanup_lock(p)
        \/ Cleanup_connectAdmin(p)
        \/ cleanupTrackedTestDatabases_range(p)
        \/ batchTerminateConnections(p)
        \/ cleanupTrackedTestDatabases_drop(p)
        \/ dropTemplateDatabase_unmark(p)
        \/ dropTemplateDatabase_drop(p)

\* Every collaborator call returns (weak fairness of the steps of an
\* in-flight call), and a goroutine blocked in mu.Lock() is not passed over
\* for ever: sync.Mutex hands the mutex to a waiter that has waited long
\* (strong fairness of the acquisition).
Fairness ==
    \A p \in Procs :
        /\ WF_vars(CollaboratorReturns(p))
        /\ SF_vars(MutexAcquired(p))

SpecLive == Init /\ [][NextLive]_vars /\ Fairness

\* The positions of a call blocked in tm.mu.Lock().
LockLabels == {"T_lock", "C_lock"}

\* C38: every call that has started eventually returns; a goroutine that
\* has returned does not hold a mutex, and a held mutex is eventually
\* released; an Initialize or Cleanup blocked in mu.Lock() eventually gets
\* past it.
C38_CallsReturnAndMutexIsReleased ==
    /\ \A p \in Procs : (pc[p] # "idle") ~> (pc[p] = "idle")
    /\ \A c \in Ctrls : (mu[c] # NoProc) ~> (mu[c] = NoProc)
    /\ [](\A p \in Procs : \A c \in Ctrls : pc[p] = "idle" => mu[c] # p)
    /\ \A p \in Procs : (pc[p] \in LockLabels) ~> (pc[p] \notin LockLabels)

\* C38 witness: a Cleanup is blocked in mu.Lock() while the Initialize of the
\* other goroutine, in flight, holds the mutex.
C38_Witness ==
    \E p, q \in Procs :
        /\ op[p] = "Cleanup" /\ pc[p] = "C_lock"
        /\ op[q] = "Initialize" /\ pc[q] \in InitializeLabels
        /\ tm[p] = tm[q] /\ mu[tm[q]] = q

\* The statements of a log that name a database other than a template and
\* the administrative database.
TestDatabaseStatements(log) ==
    {i \in 1..Len(log) :
        \/ log[i][1] = "TERMINATE_BATCH"
        \/ /\ log[i][1] \in {"DROP", "TERMINATE"}
           /\ log[i][2] \notin TemplateNames}

\* C39: the snapshot of a Cleanup is the tracked set at the moment of the
\* Range; a non-empty snapshot is followed by one termination query that
\* names exactly the snapshot, however the tracked set has changed since,
\* and an empty one by the template's statements, with no termination query
\* and no DROP of a test database; no Cleanup issues two termination queries
\* or drops a name outside the one it issued.
C39_OneTerminationQueryForTheSnapshot ==
    [][\A p \in Procs :
          LET c == tm[p]
              log == stmts'[p]
          IN
          /\ (pc[p] = "C_range" /\ pc'[p] # "C_range") =>
                /\ todo'[p] = createdTestDBs[c]
                /\ log = stmts[p]
                /\ createdTestDBs[c] = {} => pc'[p] = "C_unmark"
                /\ createdTestDBs[c] # {} => pc'[p] = "C_terminate"
          /\ (pc[p] = "C_terminate" /\ pc'[p] # "C_terminate") =>
                /\ Len(log) = Len(stmts[p]) + 1
                /\ log[Len(log)][1] = "TERMINATE_BATCH"
                /\ log[Len(log)][2] = todo[p]
                /\ todo'[p] = todo[p]
                /\ pc'[p] = "C_drop"
          /\ (op[p] = "Cleanup" /\ pc[p] = "C_unmark" /\ todo[p] = {}
                /\ ~Issued(stmts[p], "TERMINATE_BATCH")) =>
                TestDatabaseStatements(stmts[p]) = {}
          /\ op'[p] = "Cleanup" =>
                /\ Count(log, "TERMINATE_BATCH") <= 1
                /\ \A i \in 1..Len(log) :
                      (log[i][1] = "DROP" /\ log[i][2] \notin TemplateNames) =>
                          /\ Issued(log, "TERMINATE_BATCH")
                          /\ log[i][2] \in CleanupTargets(log)
      ]_vars

\* C39 witness: a Cleanup has returned after one termination query for a
\* snapshot that held the database of the other goroutine's
\* CreateTestDatabase, and a DROP of that database; the template followed.
C39_Witness ==
    \E p, q \in Procs :
        /\ op[p] = "Cleanup" /\ pc[p] = "idle"
        /\ Count(stmts[p], "TERMINATE_BATCH") = 1
        /\ op[q] = "CreateTestDatabase" /\ err[q] = Nil
        /\ CleanupTargets(stmts[p]) = {dbName[q]}
        /\ IssuedOn(stmts[p], "DROP", dbName[q])
        /\ IssuedOn(stmts[p], "UNMARK", templateName(tm[p]))
====
